---- MODULE Spec2Model ----
(***************************************************************************)
(* Model of the subprocess transport of claude-code-sdk-go and of the two  *)
(* forwarding layers built on it (internal.Client.ProcessQuery and Query). *)
(*                                                                         *)
(* One transport object (SubprocessCLITransport), the subprocess it        *)
(* starts, the goroutines of one receive cycle (the receive goroutine      *)
(* started by ReceiveMessages, the stderr collector started by             *)
(* collectStderr), a Disconnect call in progress with its Wait goroutine,  *)
(* the contexts, and the consumers of the channels.                        *)
(*                                                                         *)
(* Spec   : the transport driven by a caller that may call Connect,        *)
(*          ReceiveMessages and Disconnect and cancel contexts at any      *)
(*          time (one receive cycle at a time, no Connect while the        *)
(*          goroutines of a cycle are still running, one subprocess).      *)
(* QuerySpec: the transport driven by ProcessQuery, itself driven by       *)
(*          Query.                                                         *)
(* CancelSpec, LineSpec, LifeSpec, LifeFairSpec, FloodSpec: the transport  *)
(*          under a caller that cancels a cycle, a subprocess writing any  *)
(*          kind of line, a caller that reconnects, and a subprocess       *)
(*          flooding stderr.                                               *)
(* QueryFairSpec, TimeoutSpec, ParseSpec, BufferSpec: a query with its     *)
(*          goroutine scheduled fairly, under every query timeout, over    *)
(*          every kind of record, and under every buffer configuration.    *)
(* EnvSpec: sessions under every parent environment.                       *)
(***************************************************************************)
EXTENDS Integers, Sequences, FiniteSets, TLC

(***************************************************************************)
(* Bounds of the model.                                                    *)
(***************************************************************************)
\* lines the subprocess writes to stdout during one session
MaxLines == 2
\* lines the subprocess writes to stderr during one session
MaxErrLines == 1
\* largest buffer size a caller configures in Options
MaxBuf == 1
\* subprocesses one transport starts (successful Connects) during a run
MaxConnects == 2
\* lines a subprocess that floods stderr writes
MaxFlood == 1003
\* how long a query is followed, in ticks of the clock
MaxClock == 5
\* largest QueryTimeout a caller sets, in seconds
MaxQueryTimeout == 2
\* long lines a subprocess writes at the start of its stderr output
MaxLongLines == 1
\* largest buffer size a caller configures where the sizes are examined
MaxBufConfig == 20
\* entries of the parent environment where the environment is examined
MaxEnv == 2

(***************************************************************************)
(* Program constants.                                                      *)
(***************************************************************************)
DefaultMessageBufferSize == 10
DefaultErrorBufferSize == 1
MaxStderrLines == 1000
MaxStderrLineLength == 1000
MaxJSONSize == 10485760
DecodeExcerptLength == 200

(***************************************************************************)
(* Inputs.                                                                 *)
(***************************************************************************)
\* The two contexts a caller holds: the one it gave to Connect and another.
Contexts == {"connCtx", "otherCtx"}

\* Kinds of stdout line.  Each kind stands for the lines of the source's
\* tests: a JSON object, the JSON value null, a malformed line that starts
\* with '{', plain text, a whitespace-only line, and a line longer than the
\* scanner's maximum token size.
ObjectLine == "{\"type\":\"assistant\"}"
UnknownLine == "{\"type\":\"x\"}"
SystemLine == "{\"type\":\"system\"}"
NullLine == "null"
BadJSONLine == "{\"type\":\"assistant\", invalid json"
NoiseLine == "This is not JSON"
BlankLine == "   "
HugeLine == "{...more than MaxJSONSize bytes...}"
\* further lines: a JSON array, a JSON scalar, a malformed line behind
\* leading blanks, and a malformed line of 251 characters
ArrayLine == "[1,2]"
ScalarLine == "42"
IndentedBadLine == "  {bad "
\* objects whose "type" is absent or not a string, and user and assistant
\* records with and without a well-formed message.content
NoTypeLine == "{\"content\":\"test\"}"
NumTypeLine == "{\"type\":1}"
UserLine == "{\"type\":\"user\",\"message\":{\"content\":\"Hello\"}}"
BadUserLine == "{\"type\":\"user\",\"message\":{\"content\":1}}"
AssistantLine == "{\"type\":\"assistant\",\"message\":{\"content\":[]}}"
Pad50 == "0123456789012345678901234567890123456789012345678,"
LongBadJSONLine == "{" \o Pad50 \o Pad50 \o Pad50 \o Pad50 \o Pad50

\* The Options a transport is constructed with: both buffer sizes configured
\* to the same value.
OptionsInputs ==
    { [nil |-> FALSE, QueryTimeout |-> 0,
       MessageBufferSize |-> n, ErrorBufferSize |-> n] : n \in 1..MaxBuf }

\* Kinds of stderr line, with their length in characters.
StderrInputs ==
    { [text |-> "Error: boom", len |-> 11],
      [text |-> "note", len |-> 4] }

VARIABLES
    \* ---- SubprocessCLITransport fields ----
    connected,      \* t.connected
    cmd,            \* t.cmd: "nil", "unstarted" (Process == nil) or "started"
    stdout,         \* t.stdout: "nil" or "pipe"
    stderr,         \* t.stderr: "nil" or "pipe"
    mu,             \* t.mu: "free" or the holder
    \* ---- the subprocess and its pipes ----
    proc,           \* [st, code, reaped, ctx, sigint, kill]
    outLines,       \* lines written to stdout so far (kind of each)
    outRead,        \* number of stdout lines the scanner has consumed
    errLines,       \* lines written to stderr so far
    errRead,        \* number of stderr lines the collector has consumed
    pipeClosed,     \* [out, err]: the parent's read ends have been closed
    \* ---- contexts ----
    cancelled,      \* set of contexts that are done
    \* ---- one receive cycle ----
    caps,           \* [msg, err]: channel capacities of the cycle
    recvCtx,        \* the context given to ReceiveMessages
    rpc,            \* receive goroutine: program counter
    rLine,          \* receive goroutine: the line / record in hand
    rErr,           \* receive goroutine: the error about to be sent
    rScan,          \* what processStdout's scanner reads: "none", "nil", "pipe"
    cpc,            \* stderr collector: program counter
    cScan,          \* what the collector's scanner reads
    stderrLines,    \* collectStderr's local variable, appended by the collector
    stderrRet,      \* the slice value collectStderr returned to the caller
    stderrDone,     \* the stderrDone channel is closed
    msgCh,          \* record channel: queued records
    errCh,          \* error channel: queued errors
    closes,         \* [msg, err]: number of close() calls on each channel
    \* ---- Disconnect in progress ----
    dpc,            \* Disconnect: program counter
    wpc,            \* Disconnect's Wait goroutine: "idle", "waiting", "done"
    \* ---- history of the cycle (not read by the program) ----
    sent,           \* records ever sent on the record channel
    errsSent,       \* errors ever sent on the error channel
    lateSend,       \* a send happened on a closed channel
    nilSeen,        \* a task of the cycle read a field Disconnect had cleared
    crashed,        \* an unrecovered panic has ended the host program
    discCalled,     \* Disconnect has been called since the cycle started
    lastRet,        \* what the last call of Connect, Disconnect or IsConnected
                    \* that returned gave back to its caller: "ConnectNoop"
                    \* (nil, the transport was connected), "ConnectNil",
                    \* "ConnectErr", "DisconnectNoop" (nil, there was
                    \* nothing to disconnect), "DisconnectNil",
                    \* "IsConnTrue", "IsConnFalse"
    \* ---- internal.Client.ProcessQuery ----
    ppc,            \* ProcessQuery goroutine: program counter
    pData,          \* ProcessQuery goroutine: the parsed message in hand
    pMsgCh,         \* ProcessQuery's msgCh: queued messages
    pErrCh,         \* ProcessQuery's errCh: queued errors
    pCloses,        \* [msg, err]: number of close() calls on each of them
    \* ---- Query ----
    qpc,            \* Query goroutine: program counter
    qData,          \* Query goroutine: the converted message in hand
    qMsgCh,         \* Query's msgCh: queued messages
    qErrCh,         \* Query's errCh: queued errors
    qCloses,        \* [msg, err]: number of close() calls on each of them
    \* ---- history of the query (not read by the program) ----
    connErr,        \* the error Connect returned to ProcessQuery, or NoError
    got,            \* messages the consumer of Query has received
    gotErrs,        \* errors the consumer of Query has received
    \* ---- Query's options and time ----
    qOpts,          \* the *Options given to Query
    clock,          \* time since Query was called, in ticks of half a second
    \* ---- the host program ----
    environ         \* os.Environ(): the entries of the parent environment

tvars == <<connected, cmd, stdout, stderr, mu>>
pvars == <<proc, outLines, outRead, errLines, errRead, pipeClosed>>
rvars == <<caps, recvCtx, rpc, rLine, rErr, rScan, cpc, cScan, stderrLines,
           stderrRet, stderrDone, msgCh, errCh, closes>>
dvars == <<dpc, wpc>>
hvars == <<sent, errsSent, lateSend, nilSeen, crashed, discCalled, lastRet>>
qvars == <<ppc, pData, pMsgCh, pErrCh, pCloses, qpc, qData, qMsgCh, qErrCh,
           qCloses, connErr, got, gotErrs,
           qOpts, clock, environ>>
\* the caller's side of the transport: the contexts and the query layer.  No
\* goroutine of the transport writes them.
evars == <<cancelled, qvars>>
vars == <<tvars, pvars, cancelled, rvars, dvars, hvars, qvars>>


(***************************************************************************)
(* Pure functions.                                                         *)
(***************************************************************************)
\* Options.GetMessageBufferSize / GetErrorBufferSize, on a *Options that
\* may be nil
GetMessageBufferSize(o) ==
    IF o.nil \/ o.MessageBufferSize <= 0 THEN DefaultMessageBufferSize
    ELSE o.MessageBufferSize
\* GetErrorBufferSize without the default
GetErrorBufferSize_NoDefault(o) == o.ErrorBufferSize
GetErrorBufferSize(o) ==
    IF o.nil \/ o.ErrorBufferSize <= 0 THEN DefaultErrorBufferSize
    ELSE o.ErrorBufferSize
\* the capacities of "make(chan ..., msgBufSize)" and
\* "make(chan error, errBufSize)"
ChannelCaps(o) ==
    [msg |-> GetMessageBufferSize(o), err |-> GetErrorBufferSize(o)]

\* len(line); HugeLine stands for a line of MaxJSONSize + 1 bytes
LineLen(line) == IF line = HugeLine THEN MaxJSONSize + 1 ELSE Len(line)
\* bufio.Scanner with a maximum token size of MaxJSONSize: a line that
\* fills the buffer before its newline ends the scan with bufio.ErrTooLong
ScanTooLong(line) == LineLen(line) >= MaxJSONSize
\* strings.TrimSpace(line)
RECURSIVE TrimLeft(_)
TrimLeft(line) ==
    IF Len(line) >= 1 /\ SubSeq(line, 1, 1) = " "
    THEN TrimLeft(SubSeq(line, 2, Len(line)))
    ELSE line
RECURSIVE TrimRight(_)
TrimRight(line) ==
    IF Len(line) >= 1 /\ SubSeq(line, Len(line), Len(line)) = " "
    THEN TrimRight(SubSeq(line, 1, Len(line) - 1))
    ELSE line
TrimSpace(line) == IF line = HugeLine THEN line ELSE TrimRight(TrimLeft(line))
\* strings.TrimSpace(line) == ""
TrimmedEmpty(line) == TrimSpace(line) = ""
\* len(line) > validation.MaxJSONSize
LineTooLarge(line) == LineLen(line) > MaxJSONSize
\* json.Unmarshal([]byte(line), &data) with data a map[string]interface{}
UnmarshalOK(line) ==
    line \in {ObjectLine, UnknownLine, SystemLine, NullLine, NoTypeLine,
              NumTypeLine, UserLine, BadUserLine, AssistantLine}
\* strings.HasPrefix(line, "{") || strings.HasPrefix(line, "[")
LooksLikeJSON(line) == Len(line) >= 1 /\ SubSeq(line, 1, 1) \in {"{", "["}
\* the map json.Unmarshal produces from the i-th line of the stream
Decode(line, i) ==
    [idx |-> i,
     nil |-> (line = NullLine),
     tkind |-> IF line \in {NullLine, NoTypeLine} THEN "absent"
               ELSE IF line = NumTypeLine THEN "number" ELSE "string",
     type |-> IF line \in {ObjectLine, AssistantLine} THEN "assistant"
              ELSE IF line \in {UserLine, BadUserLine} THEN "user"
              ELSE IF line = UnknownLine THEN "x"
              ELSE IF line = SystemLine THEN "system" ELSE "",
     content |-> IF line = UserLine THEN "string"
                 ELSE IF line = BadUserLine THEN "number"
                 ELSE IF line = AssistantLine THEN "list" ELSE "absent"]

\* ProcessLineResult without the prefix test: every line that does not
\* parse is a decode error
ProcessLineResult_NoPrefixTest(line) ==
    IF LineTooLarge(line) THEN "too_large"
    ELSE IF ~UnmarshalOK(line) THEN "decode_error"
         ELSE "record"

\* what processLine does with a (trimmed, non-empty) line
ProcessLineResult(line) ==
    IF LineTooLarge(line) THEN "too_large"
    ELSE IF ~UnmarshalOK(line)
         THEN IF LooksLikeJSON(line) THEN "decode_error" ELSE "skip"
         ELSE "record"

\* the error values of package errors
PlainError(kind) ==
    [kind |-> kind, code |-> 0, stderr |-> <<>>, line |-> "", cause |-> ""]
ProcessError(code, text) ==
    [kind |-> "ProcessError", code |-> code, stderr |-> text, line |-> "",
     cause |-> ""]
\* errors.NewCLIJSONDecodeError(line, originalError)
NewCLIJSONDecodeError(line, originalError) ==
    [kind |-> "JSONDecodeError", code |-> 0, stderr |-> <<>>, line |-> line,
     cause |-> originalError]
\* TruncatedLine without the cut: the whole line goes into the error
TruncatedLine_NoCut(line) == line
\* processLine's excerpt of a line that failed to decode
\*   if len(truncatedLine) > 200 { truncatedLine = truncatedLine[:200] + "..." }
TruncatedLine(line) ==
    IF Len(line) > DecodeExcerptLength
    THEN SubSeq(line, 1, DecodeExcerptLength) \o "..."
    ELSE line

\* the collector's treatment of one stderr line: truncate, then append
\* while fewer than MaxStderrLines are kept, then one marker
TruncateLine(l) ==
    IF l.len > MaxStderrLineLength
    THEN [text |-> l.text, len |-> MaxStderrLineLength + 3]
    ELSE l
TruncationMarker == [text |-> "[stderr truncated - too many lines]", len |-> 35]
\* AppendStderr without the cap
AppendStderr_NoCap(lines, l) == Append(lines, TruncateLine(l))
AppendStderr(lines, l) ==
    IF Len(lines) < MaxStderrLines THEN Append(lines, TruncateLine(l))
    ELSE IF Len(lines) = MaxStderrLines THEN Append(lines, TruncationMarker)
    ELSE lines

\* strings.Join(stderrLines, "\n"): the texts, in order
JoinText(lines) == [i \in 1..Len(lines) |-> lines[i].text]
\* strings.Contains(strings.ToLower(stderrOutput), "error")
ContainsError(texts) == \E i \in 1..Len(texts) : texts[i] = "Error: boom"
\* stderrOutput != "" && contains "error"
StderrLooksLikeError(lines) == lines # <<>> /\ ContainsError(JoinText(lines))

\* handleProcessExit's condition for sending a ProcessError: Wait returned
\* an *exec.ExitError (the exit status is not 0) and stderr looks like an error
ReportsProcessError_AnyCode(code, lines) == StderrLooksLikeError(lines)
ReportsProcessError_AnyStderr(code, lines) == code # 0
ReportsProcessError(code, lines) == code # 0 /\ StderrLooksLikeError(lines)

\* *Options as far as Query's timeout goes: nil, or a QueryTimeout in
\* seconds; NewOptions() leaves QueryTimeout at zero
NilOptions == [nil |-> TRUE, QueryTimeout |-> 0,
               MessageBufferSize |-> 0, ErrorBufferSize |-> 0]
NewOptions == [nil |-> FALSE, QueryTimeout |-> 0,
               MessageBufferSize |-> DefaultMessageBufferSize,
               ErrorBufferSize |-> DefaultErrorBufferSize]
\* "if options == nil { options = NewOptions() }"
OptionsOrDefault(o) == IF o.nil THEN NewOptions ELSE o
\* time.Second in ticks of the clock
Second == 2
\* Options.GetQueryTimeout
GetQueryTimeout(o) ==
    IF o.nil \/ o.QueryTimeout <= 0 THEN 0 ELSE o.QueryTimeout * Second
\* "if timeout := options.GetQueryTimeout(); timeout > 0": Query wraps the
\* caller's context in context.WithTimeout
AppliesTimeout_AlsoZero(timeout) == timeout >= 0
AppliesTimeout(timeout) == timeout > 0

\* IsConnected's result
IsConnectedValue_CmdOnly == cmd # "nil"
IsConnectedValue == connected /\ cmd # "nil" /\ cmd = "started"

(***************************************************************************)
(* Initial state: a transport just constructed, nothing running.           *)
(***************************************************************************)
(***************************************************************************)
(* validation.FilterEnvironment and the environment Connect gives the      *)
(* subprocess.  An environment is a sequence of entries, an entry a string.*)
(***************************************************************************)
safeEnvPrefixes ==
    <<"CLAUDE_", "LANG", "LC_", "TZ", "TERM", "USER", "HOME", "PATH",
      "TMPDIR", "TEMP", "TMP">>
blockedEnv ==
    {"AWS_SECRET_ACCESS_KEY", "AWS_SESSION_TOKEN", "GITHUB_TOKEN",
     "NPM_TOKEN", "ANTHROPIC_API_KEY"}

\* strings.HasPrefix(s, prefix)
HasPrefix(s, prefix) ==
    Len(s) >= Len(prefix) /\ SubSeq(s, 1, Len(prefix)) = prefix

\* strings.SplitN(e, "=", 2): the position of the first '=' from position
\* i on, 0 when there is none
RECURSIVE IndexOfEquals(_, _)
IndexOfEquals(e, i) ==
    IF i > Len(e) THEN 0
    ELSE IF SubSeq(e, i, i) = "=" THEN i
    ELSE IndexOfEquals(e, i + 1)
\* len(parts): 2 when the entry holds a '=', else 1
SplitParts(e) == IF IndexOfEquals(e, 1) = 0 THEN 1 ELSE 2
\* parts[0]
EnvKey(e) == SubSeq(e, 1, IndexOfEquals(e, 1) - 1)

\* the loop over safeEnvPrefixes
RECURSIVE MatchesSafePrefix(_, _)
MatchesSafePrefix(key, i) ==
    IF i > Len(safeEnvPrefixes) THEN FALSE
    ELSE IF HasPrefix(key, safeEnvPrefixes[i]) THEN TRUE
    ELSE MatchesSafePrefix(key, i + 1)

\* the body of FilterEnvironment's loop without the prefix test
KeepsEntry_AnyKey(e) == SplitParts(e) = 2 /\ EnvKey(e) \notin blockedEnv
\* the body of FilterEnvironment's loop: whether entry e is appended
KeepsEntry(e) ==
    IF SplitParts(e) # 2 THEN FALSE
    ELSE IF EnvKey(e) \in blockedEnv THEN FALSE
    ELSE MatchesSafePrefix(EnvKey(e), 1)

\* FilterEnvironment(env)
RECURSIVE FilterEnvironment(_)
FilterEnvironment(env) ==
    IF env = <<>> THEN <<>>
    ELSE IF KeepsEntry(Head(env))
         THEN <<Head(env)>> \o FilterEnvironment(Tail(env))
         ELSE FilterEnvironment(Tail(env))

\* t.cmd.Env = append(filteredEnv, "CLAUDE_CODE_ENTRYPOINT=sdk-go")
EntryPoint == "CLAUDE_CODE_ENTRYPOINT=sdk-go"
SubprocessEnv(env) == Append(FilterEnvironment(env), EntryPoint)

\* the environment of the host program in the runs that do not vary it
HostEnviron == <<"PATH=/bin", "GITHUB_TOKEN=t">>

\* gen counts the subprocesses started so far, orphans those that were
\* still running when cmd was replaced, disc says a Disconnect has completed
\* since the subprocess was started, env is t.cmd.Env at its cmd.Start()
NoProc == [st |-> "none", code |-> 0, reaped |-> FALSE, ctx |-> "connCtx",
           sigint |-> FALSE, kill |-> FALSE, gen |-> 0, orphans |-> 0,
           disc |-> FALSE, env |-> <<>>]
NoLine == [idx |-> 0, nil |-> TRUE, tkind |-> "absent", type |-> "",
           content |-> "absent"]
NoError == PlainError("none")
NoMessage == [idx |-> 0, type |-> "nil"]

InitButOptions ==
    /\ connected = FALSE /\ cmd = "nil" /\ stdout = "nil" /\ stderr = "nil"
    /\ mu = "free"
    /\ proc = NoProc
    /\ outLines = <<>> /\ outRead = 0 /\ errLines = <<>> /\ errRead = 0
    /\ pipeClosed = [out |-> FALSE, err |-> FALSE]
    /\ cancelled = {}
    /\ recvCtx = "connCtx"
    /\ rpc = "idle" /\ rLine = NoLine /\ rErr = NoError /\ rScan = "none"
    /\ cpc = "idle" /\ cScan = "none"
    /\ stderrLines = <<>> /\ stderrRet = <<>> /\ stderrDone = FALSE
    /\ msgCh = <<>> /\ errCh = <<>>
    /\ closes = [msg |-> 0, err |-> 0]
    /\ dpc = "idle" /\ wpc = "idle"
    /\ sent = <<>> /\ errsSent = <<>>
    /\ lateSend = FALSE /\ nilSeen = FALSE /\ crashed = FALSE
    /\ discCalled = FALSE /\ lastRet = "none"
    /\ ppc = "idle" /\ pData = NoMessage /\ pMsgCh = <<>> /\ pErrCh = <<>>
    /\ pCloses = [msg |-> 0, err |-> 0]
    /\ qpc = "idle" /\ qData = NoMessage /\ qMsgCh = <<>> /\ qErrCh = <<>>
    /\ qCloses = [msg |-> 0, err |-> 0]
    /\ connErr = NoError /\ got = <<>> /\ gotErrs = <<>>
    /\ clock = 0

\* the options the caller passes, and the capacities Query takes from them
Init ==
    /\ InitButOptions
    /\ qOpts \in OptionsInputs
    /\ caps = ChannelCaps(OptionsOrDefault(qOpts))
    /\ environ = HostEnviron

(***************************************************************************)
(* The caller of the transport.                                            *)
(***************************************************************************)
ConnectOutcomes ==
    {"ok", "no_cli", "args_error", "bad_cwd", "stdout_pipe", "stderr_pipe",
     "start_failed"}

\* "if t.connected { return nil }"
AlreadyConnected_Never == FALSE
AlreadyConnected == connected

\* the return paths that reach "t.connected = true"
SetsConnected(outcome) == outcome = "ok"

\* the return paths on which cmd.Start() has started a subprocess
StartsSubprocess_ThenFails(outcome) == outcome \in {"ok", "start_failed"}
StartsSubprocess(outcome) == outcome = "ok"

\* t.stdout and t.stderr when Connect returns on the given path: a path
\* that fails before the pipes leaves them alone, StdoutPipe and StderrPipe
\* return nil with their error, and the failure paths after StdoutPipe
\* close and clear what was opened
PipesAfter_NoCleanup(outcome) ==
    CASE outcome \in {"no_cli", "args_error", "bad_cwd"} ->
            [stdout |-> stdout, stderr |-> stderr]
      [] outcome = "stdout_pipe" -> [stdout |-> "nil", stderr |-> stderr]
      [] outcome = "stderr_pipe" -> [stdout |-> "pipe", stderr |-> "nil"]
      [] outcome = "start_failed" -> [stdout |-> "pipe", stderr |-> "pipe"]
      [] outcome = "ok" -> [stdout |-> "pipe", stderr |-> "pipe"]
PipesAfter(outcome) ==
    CASE outcome \in {"no_cli", "args_error", "bad_cwd"} ->
            [stdout |-> stdout, stderr |-> stderr]
      [] outcome = "stdout_pipe" -> [stdout |-> "nil", stderr |-> stderr]
      [] outcome = "stderr_pipe" -> [stdout |-> "nil", stderr |-> "nil"]
      [] outcome = "start_failed" -> [stdout |-> "nil", stderr |-> "nil"]
      [] outcome = "ok" -> [stdout |-> "pipe", stderr |-> "pipe"]

\* SubprocessCLITransport.Connect(ctx).  The whole call runs under t.mu.
\* outcome says how far the environment lets it get; an already cancelled
\* context makes cmd.Start fail.  t.cmd is replaced as soon as the command
\* line has been built; cmd.Start starts a new subprocess.
Connect(ctx, outcome) ==
    /\ ~crashed /\ mu = "free"
    /\ (ctx \in cancelled) => outcome # "ok"
    /\ (outcome = "ok" /\ ~AlreadyConnected) => proc.gen < MaxConnects
    /\ IF AlreadyConnected
       THEN /\ lastRet' = "ConnectNoop"
            /\ UNCHANGED <<tvars, pvars>>
       ELSE /\ lastRet' = IF outcome = "ok" THEN "ConnectNil" ELSE "ConnectErr"
            /\ cmd' = IF outcome \in {"no_cli", "args_error"} THEN cmd
                      ELSE IF outcome = "ok" THEN "started" ELSE "unstarted"
            /\ stdout' = PipesAfter(outcome).stdout
            /\ stderr' = PipesAfter(outcome).stderr
            /\ connected' = (connected \/ SetsConnected(outcome))
            /\ UNCHANGED mu
            /\ IF StartsSubprocess(outcome)
               THEN /\ proc' = [st |-> "running", code |-> 0, reaped |-> FALSE,
                                ctx |-> ctx, sigint |-> FALSE, kill |-> FALSE,
                                gen |-> proc.gen + 1,
                                orphans |-> proc.orphans +
                                    (IF proc.st = "running" THEN 1 ELSE 0),
                                disc |-> FALSE,
                                env |-> SubprocessEnv(environ)]
                    /\ outLines' = <<>> /\ outRead' = 0
                    /\ errLines' = <<>> /\ errRead' = 0
                    /\ pipeClosed' = [out |-> FALSE, err |-> FALSE]
               ELSE UNCHANGED pvars
    /\ UNCHANGED <<cancelled, rvars, dvars, sent, errsSent, lateSend, nilSeen,
                   crashed, discCalled>>

\* SubprocessCLITransport.ReceiveMessages(ctx): makes the two channels, asks
\* IsConnected (under t.mu) and starts the goroutine of the cycle.
ReceiveMessages(ctx) ==
    /\ ~crashed /\ mu = "free" /\ rpc = "idle"
    /\ (ctx = "connCtx") => "otherCtx" \notin cancelled
    /\ recvCtx' = ctx
    /\ msgCh' = <<>> /\ errCh' = <<>> /\ closes' = [msg |-> 0, err |-> 0]
    /\ rpc' = IF IsConnectedValue THEN "collect" ELSE "nc_send"
    /\ rLine' = NoLine /\ rErr' = NoError /\ rScan' = "none"
    /\ cpc' = "idle" /\ cScan' = "none"
    /\ stderrLines' = <<>> /\ stderrRet' = <<>> /\ stderrDone' = FALSE
    /\ sent' = <<>> /\ errsSent' = <<>> /\ lateSend' = FALSE /\ nilSeen' = FALSE
    /\ discCalled' = FALSE
    /\ caps' = ChannelCaps(qOpts)
    /\ UNCHANGED <<tvars, pvars, cancelled, dvars, crashed, lastRet>>

\* cancel() of one of the contexts
Cancel(ctx) ==
    /\ ~crashed /\ ctx \notin cancelled
    /\ (ctx = "otherCtx") => (rpc = "idle" \/ recvCtx = "otherCtx")
    /\ cancelled' = cancelled \cup {ctx}
    /\ UNCHANGED <<tvars, pvars, rvars, dvars, hvars, qvars>>

\* the consumer receives a record / an error
ConsumeMsg ==
    /\ ~crashed /\ msgCh # <<>>
    /\ msgCh' = Tail(msgCh)
    /\ UNCHANGED <<tvars, pvars, evars, caps, recvCtx, rpc, rLine, rErr, rScan,
                   cpc, cScan, stderrLines, stderrRet, stderrDone, errCh, closes,
                   dvars, hvars>>

ConsumeErr ==
    /\ ~crashed /\ errCh # <<>>
    /\ errCh' = Tail(errCh)
    /\ UNCHANGED <<tvars, pvars, evars, caps, recvCtx, rpc, rLine, rErr, rScan,
                   cpc, cScan, stderrLines, stderrRet, stderrDone, msgCh, closes,
                   dvars, hvars>>

(***************************************************************************)
(* The subprocess.                                                         *)
(***************************************************************************)
StdoutInputs == {ObjectLine, NoiseLine, BadJSONLine}

ProcWriteStdout(line) ==
    /\ ~crashed /\ proc.st = "running" /\ Len(outLines) < MaxLines
    /\ outLines' = Append(outLines, line)
    /\ UNCHANGED <<tvars, proc, outRead, errLines, errRead, pipeClosed, evars,
                   rvars, dvars, hvars>>

ProcWriteStderr(l) ==
    /\ ~crashed /\ proc.st = "running" /\ Len(errLines) < MaxErrLines
    /\ errLines' = Append(errLines, l)
    /\ UNCHANGED <<tvars, proc, outLines, outRead, errRead, pipeClosed, evars,
                   rvars, dvars, hvars>>

\* the subprocess exits by itself with the given code
ProcExit(code) ==
    /\ ~crashed /\ proc.st = "running"
    /\ proc' = [proc EXCEPT !.st = "exited", !.code = code]
    /\ UNCHANGED <<tvars, outLines, outRead, errLines, errRead, pipeClosed,
                   evars, rvars, dvars, hvars>>

\* the subprocess is ended by a signal: the interrupt or the kill sent by
\* Disconnect, or the kill exec.CommandContext sends once its context is done
ProcKilled ==
    /\ ~crashed /\ proc.st = "running"
    /\ proc.sigint \/ proc.kill \/ proc.ctx \in cancelled
    /\ proc' = [proc EXCEPT !.st = "exited", !.code = -1]
    /\ UNCHANGED <<tvars, outLines, outRead, errLines, errRead, pipeClosed,
                   evars, rvars, dvars, hvars>>

(***************************************************************************)
(* The receive cycle: the goroutine ReceiveMessages starts.                *)
(***************************************************************************)
\* frame of a step of the receive goroutine that touches only its own
\* program counter and locals
RFrame == UNCHANGED <<tvars, evars, caps, recvCtx, cpc, cScan, stderrLines,
                      stderrDone, dvars, crashed, discCalled, lastRet>>

\* a send on the error channel (blocks while the channel is full)
ErrSend(e) ==
    /\ Len(errCh) < caps.err
    /\ errCh' = Append(errCh, e)
    /\ errsSent' = Append(errsSent, e)
    /\ lateSend' = (lateSend \/ closes.err > 0)

\* a send on the record channel (blocks while the channel is full)
MsgSend(r) ==
    /\ Len(msgCh) < caps.msg
    /\ msgCh' = Append(msgCh, r)
    /\ sent' = Append(sent, r)
    /\ lateSend' = (lateSend \/ closes.msg > 0)

\* handleNotConnected's goroutine: errCh <- CLIConnectionError "Not connected"
R_NotConnected ==
    /\ ~crashed /\ rpc = "nc_send"
    /\ ErrSend(PlainError("NotConnected"))
    /\ rpc' = "close_msg"
    /\ UNCHANGED <<pvars, rLine, rErr, rScan, stderrRet, msgCh, closes, sent, nilSeen>>
    /\ RFrame

\* collectStderr, first half: make stderrDone and start the collector
R_CollectStderr ==
    /\ ~crashed /\ rpc = "collect"
    /\ rpc' = "collect_ret"
    /\ cpc' = "start" /\ stderrLines' = <<>> /\ stderrDone' = FALSE
    /\ UNCHANGED <<tvars, pvars, evars, caps, recvCtx, rLine, rErr, rScan, cScan,
                   stderrRet, msgCh, errCh, closes, dvars, hvars>>

\* collectStderr, second half: "return stderrLines, stderrDone" copies the
\* slice value the collector goroutine may already be appending to
R_CollectReturn ==
    /\ ~crashed /\ rpc = "collect_ret"
    /\ stderrRet' = stderrLines
    /\ rpc' = "new_scanner"
    /\ UNCHANGED <<pvars, rLine, rErr, rScan, msgCh, errCh, closes, sent, errsSent,
                   lateSend, nilSeen>>
    /\ RFrame

\* processStdout: bufio.NewScanner(t.stdout) reads the field without t.mu
R_NewScanner ==
    /\ ~crashed /\ rpc = "new_scanner"
    /\ rScan' = stdout
    /\ nilSeen' = (nilSeen \/ stdout = "nil")
    /\ rpc' = "scan"
    /\ UNCHANGED <<pvars, rLine, rErr, stderrRet, msgCh, errCh, closes, sent,
                   errsSent, lateSend>>
    /\ RFrame

\* where the receive goroutine goes after processStdout returned err
\* (ReceiveMessages: "if err != nil { return }", then the deferred closes)
AfterStdoutError == "close_msg"
\* where it goes after processStdout returned nil
AfterStdoutDone == "wait_stderr"

\* scanner.Scan() in processStdout's loop, up to the point where a line is
\* in hand or the loop ends
R_Scan ==
    /\ ~crashed /\ rpc = "scan"
    /\ IF rScan = "nil"
       THEN \* nil reader: the read panics, the deferred function recovers
            /\ rErr' = PlainError("Panic") /\ rpc' = "send_err"
            /\ UNCHANGED <<outRead, rLine>>
       ELSE IF pipeClosed.out
       THEN \* read on a closed file: scanner.Err() != nil
            /\ rErr' = PlainError("ReadError") /\ rpc' = "send_err"
            /\ UNCHANGED <<outRead, rLine>>
       ELSE IF outRead < Len(outLines)
       THEN /\ outRead' = outRead + 1
            /\ IF ScanTooLong(outLines[outRead + 1])
               THEN /\ rErr' = PlainError("ReadError") /\ rpc' = "send_err"
                    /\ UNCHANGED rLine
               ELSE /\ rLine' = [NoLine EXCEPT !.idx = outRead + 1]
                    /\ rpc' = "line"
                    /\ UNCHANGED rErr
       ELSE \* nothing to read: end of file once the subprocess has exited
            /\ proc.st = "exited"
            /\ rpc' = AfterStdoutDone
            /\ UNCHANGED <<outRead, rLine, rErr>>
    /\ UNCHANGED <<proc, outLines, errLines, errRead, pipeClosed, rScan, stderrRet,
                   msgCh, errCh, closes, hvars>>
    /\ UNCHANGED <<tvars, evars, caps, recvCtx, cpc, cScan, stderrLines,
                   stderrDone, dvars>>

\* the body of processStdout's loop for the line in hand: the ctx.Done()
\* check, TrimSpace, and processLine up to its channel operation
R_Line ==
    /\ ~crashed /\ rpc = "line"
    /\ LET line == TrimSpace(outLines[rLine.idx]) IN
       IF recvCtx \in cancelled
       THEN /\ rpc' = AfterStdoutDone /\ rLine' = NoLine /\ UNCHANGED rErr
       ELSE IF TrimmedEmpty(outLines[rLine.idx])
       THEN /\ rpc' = "scan" /\ rLine' = NoLine /\ UNCHANGED rErr
       ELSE CASE ProcessLineResult(line) = "too_large" ->
                   /\ rErr' = NewCLIJSONDecodeError("[JSON too large]",
                                                    "JSON exceeds maximum size")
                   /\ rpc' = "send_err"
                   /\ rLine' = NoLine
              [] ProcessLineResult(line) = "decode_error" ->
                   /\ rErr' = NewCLIJSONDecodeError(TruncatedLine(line),
                                                    "json.Unmarshal error")
                   /\ rpc' = "send_err"
                   /\ rLine' = NoLine
              [] ProcessLineResult(line) = "skip" ->
                   /\ rpc' = "scan" /\ rLine' = NoLine /\ UNCHANGED rErr
              [] ProcessLineResult(line) = "record" ->
                   /\ rLine' = Decode(line, rLine.idx) /\ rpc' = "send_msg"
                   /\ UNCHANGED rErr
    /\ UNCHANGED <<pvars, rScan, stderrRet, msgCh, errCh, closes, hvars>>
    /\ UNCHANGED <<tvars, evars, caps, recvCtx, cpc, cScan, stderrLines,
                   stderrDone, dvars>>

\* R_SendRecord that goes round its select again after a successful send
R_SendRecord_Twice ==
    /\ ~crashed /\ rpc = "send_msg"
    /\ \/ /\ MsgSend(rLine)
          /\ rpc' = "send_msg"
          /\ UNCHANGED rLine
       \/ /\ recvCtx \in cancelled
          /\ rpc' = AfterStdoutError
          /\ rLine' = NoLine
          /\ UNCHANGED <<msgCh, sent, lateSend>>
    /\ UNCHANGED <<pvars, rErr, rScan, stderrRet, errCh, closes, errsSent, nilSeen>>
    /\ RFrame

\* R_SendRecord as a send that does not block: a record that finds the
\* channel full is dropped and the loop goes on
R_SendRecord_DropWhenFull ==
    /\ ~crashed /\ rpc = "send_msg"
    /\ \/ /\ MsgSend(rLine)
          /\ rpc' = "scan"
       \/ /\ Len(msgCh) >= caps.msg
          /\ rpc' = "scan"
          /\ UNCHANGED <<msgCh, sent, lateSend>>
       \/ /\ recvCtx \in cancelled
          /\ rpc' = AfterStdoutError
          /\ UNCHANGED <<msgCh, sent, lateSend>>
    /\ rLine' = NoLine
    /\ UNCHANGED <<pvars, rErr, rScan, stderrRet, errCh, closes, errsSent, nilSeen>>
    /\ RFrame

\* processLine: select { case msgCh <- data: ; case <-ctx.Done(): return ctx.Err() }
R_SendRecord ==
    /\ ~crashed /\ rpc = "send_msg"
    /\ \/ /\ MsgSend(rLine)
          /\ rpc' = "scan"
       \/ /\ recvCtx \in cancelled
          /\ rpc' = AfterStdoutError
          /\ UNCHANGED <<msgCh, sent, lateSend>>
    /\ rLine' = NoLine
    /\ UNCHANGED <<pvars, rErr, rScan, stderrRet, errCh, closes, errsSent, nilSeen>>
    /\ RFrame

\* R_SendError with the return after the send forgotten: the loop goes on
R_SendError_NoReturn ==
    /\ ~crashed /\ rpc = "send_err"
    /\ ErrSend(rErr)
    /\ rpc' = "scan"
    /\ rErr' = NoError
    /\ UNCHANGED <<pvars, rLine, rScan, stderrRet, msgCh, closes, sent, nilSeen>>
    /\ RFrame

\* every "errCh <- err" of the receive goroutine; each is followed by the
\* goroutine's return
R_SendError ==
    /\ ~crashed /\ rpc = "send_err"
    /\ ErrSend(rErr)
    /\ rpc' = "close_msg"
    /\ rErr' = NoError
    /\ UNCHANGED <<pvars, rLine, rScan, stderrRet, msgCh, closes, sent, nilSeen>>
    /\ RFrame

\* <-stderrDone
R_WaitStderr ==
    /\ ~crashed /\ rpc = "wait_stderr"
    /\ stderrDone
    /\ rpc' = "wait"
    /\ UNCHANGED <<pvars, rLine, rErr, rScan, stderrRet, msgCh, errCh, closes, sent,
                   errsSent, lateSend, nilSeen>>
    /\ RFrame

\* handleProcessExit: t.cmd.Wait() (t.cmd read without t.mu) and the
\* classification of its result
R_HandleProcessExit ==
    /\ ~crashed /\ rpc = "wait"
    /\ nilSeen' = (nilSeen \/ cmd = "nil")
    /\ IF cmd = "nil"
       THEN \* nil pointer dereference, recovered by the deferred function
            /\ rErr' = PlainError("Panic") /\ rpc' = "send_err"
            /\ UNCHANGED <<proc, pipeClosed>>
       ELSE IF cmd = "unstarted" \/ proc.reaped
       THEN \* "exec: not started" / "exec: Wait was already called"
            /\ rpc' = "close_msg"
            /\ UNCHANGED <<proc, pipeClosed, rErr>>
       ELSE \* Wait blocks until the subprocess has exited, reaps it and
            \* closes the parent's pipe ends
            /\ proc.st = "exited"
            /\ proc' = [proc EXCEPT !.reaped = TRUE]
            /\ pipeClosed' = [out |-> TRUE, err |-> TRUE]
            /\ IF ReportsProcessError(proc.code, stderrRet)
               THEN /\ rErr' = ProcessError(proc.code, JoinText(stderrRet))
                    /\ rpc' = "send_err"
               ELSE /\ rpc' = "close_msg" /\ UNCHANGED rErr
    /\ UNCHANGED <<outLines, outRead, errLines, errRead, rLine, rScan, stderrRet,
                   msgCh, errCh, closes, sent, errsSent, lateSend>>
    /\ RFrame

\* the deferred function: close(msgCh)
R_CloseMsg ==
    /\ ~crashed /\ rpc = "close_msg"
    /\ closes' = [closes EXCEPT !.msg = @ + 1]
    /\ rpc' = "close_err"
    /\ UNCHANGED <<pvars, rLine, rErr, rScan, stderrRet, msgCh, errCh, sent,
                   errsSent, lateSend, nilSeen>>
    /\ RFrame

\* R_CloseErr with the close of the error channel forgotten
R_CloseErr_NoClose ==
    /\ ~crashed /\ rpc = "close_err"
    /\ rpc' = "done"
    /\ UNCHANGED <<pvars, rLine, rErr, rScan, stderrRet, msgCh, errCh, closes, sent,
                   errsSent, lateSend, nilSeen>>
    /\ RFrame

\* the deferred function: close(errCh)
R_CloseErr ==
    /\ ~crashed /\ rpc = "close_err"
    /\ closes' = [closes EXCEPT !.err = @ + 1]
    /\ rpc' = "done"
    /\ UNCHANGED <<pvars, rLine, rErr, rScan, stderrRet, msgCh, errCh, sent,
                   errsSent, lateSend, nilSeen>>
    /\ RFrame

(***************************************************************************)
(* The stderr collector goroutine of collectStderr.                        *)
(***************************************************************************)
\* bufio.NewScanner(t.stderr): the field is read without t.mu
C_NewScanner ==
    /\ ~crashed /\ cpc = "start"
    /\ cScan' = stderr
    /\ nilSeen' = (nilSeen \/ stderr = "nil")
    /\ cpc' = "scan"
    /\ UNCHANGED <<tvars, pvars, evars, caps, recvCtx, rpc, rLine, rErr, rScan,
                   stderrLines, stderrRet, stderrDone, msgCh, errCh, closes, dvars,
                   sent, errsSent, lateSend, crashed, discCalled, lastRet>>

\* one turn of "for scanner.Scan()", or the end of the loop and the deferred
\* close(stderrDone).  The goroutine has no recover: a panic ends the program.
C_Scan ==
    /\ ~crashed /\ cpc = "scan"
    /\ IF cScan = "nil"
       THEN /\ crashed' = TRUE
            /\ UNCHANGED <<errRead, stderrLines, stderrDone, cpc>>
       ELSE IF pipeClosed.err
       THEN /\ stderrDone' = TRUE /\ cpc' = "done"
            /\ UNCHANGED <<errRead, stderrLines, crashed>>
       ELSE IF errRead < Len(errLines)
       THEN /\ errRead' = errRead + 1
            /\ stderrLines' = AppendStderr(stderrLines, errLines[errRead + 1])
            /\ UNCHANGED <<stderrDone, cpc, crashed>>
       ELSE /\ proc.st = "exited"
            /\ stderrDone' = TRUE /\ cpc' = "done"
            /\ UNCHANGED <<errRead, stderrLines, crashed>>
    /\ UNCHANGED <<tvars, proc, outLines, outRead, errLines, pipeClosed, evars,
                   caps, recvCtx, rpc, rLine, rErr, rScan, cScan, stderrRet, msgCh,
                   errCh, closes, dvars, sent, errsSent, lateSend, nilSeen, discCalled,
                   lastRet>>

(***************************************************************************)
(* Disconnect.  It holds t.mu from its first step to its last.             *)
(***************************************************************************)
ExitCodes == {0, 1}

\* "if !t.connected || t.cmd == nil { return nil }"
NothingToDisconnect_CmdOnly == cmd = "nil"
NothingToDisconnect == ~connected \/ cmd = "nil"

\* lock, the test above, then
\* t.cmd.Process.Signal(os.Interrupt) and, when the signal was sent,
\* "go func() { done <- t.cmd.Wait() }()".  Signal fails once the process
\* has been waited for; then Kill fails too and t.cmd.Wait() returns at once.
\* canInterrupt says whether the platform can send os.Interrupt to a
\* process at all; where it cannot, Signal fails on a live process too and
\* Disconnect goes on to Kill and a blocking Wait.
Disconnect(canInterrupt) ==
    /\ ~crashed /\ mu = "free" /\ dpc = "idle"
    /\ discCalled' = TRUE
    /\ IF NothingToDisconnect
       THEN /\ lastRet' = "DisconnectNoop"
            /\ UNCHANGED <<mu, dpc, wpc, proc>>
       ELSE /\ UNCHANGED lastRet
            /\ IF cmd = "unstarted"
               THEN /\ mu' = "Disconnect" /\ dpc' = "finish"
                    /\ UNCHANGED <<wpc, proc>>
               ELSE IF proc.reaped
               THEN /\ mu' = "Disconnect" /\ dpc' = "finish"
                    /\ proc' = [proc EXCEPT !.kill = TRUE]
                    /\ UNCHANGED wpc
               ELSE IF canInterrupt
               THEN /\ mu' = "Disconnect" /\ dpc' = "select" /\ wpc' = "waiting"
                    /\ proc' = [proc EXCEPT !.sigint = TRUE]
               ELSE /\ mu' = "Disconnect" /\ dpc' = "kill_wait"
                    /\ proc' = [proc EXCEPT !.kill = TRUE]
                    /\ UNCHANGED wpc
    /\ UNCHANGED <<connected, cmd, stdout, stderr, outLines, outRead, errLines,
                   errRead, pipeClosed, cancelled, rvars, sent, errsSent, lateSend,
                   nilSeen, crashed>>

\* "t.cmd.Process.Kill(); t.cmd.Wait()" after a failed Signal: Wait returns
\* once the subprocess has exited
D_KillWait ==
    /\ ~crashed /\ dpc = "kill_wait"
    /\ proc.st = "exited"
    /\ dpc' = "finish"
    /\ IF proc.reaped
       THEN UNCHANGED <<proc, pipeClosed>>
       ELSE /\ proc' = [proc EXCEPT !.reaped = TRUE]
            /\ pipeClosed' = [out |-> TRUE, err |-> TRUE]
    /\ UNCHANGED <<tvars, outLines, outRead, errLines, errRead, evars, rvars,
                   wpc, hvars>>

\* Disconnect's goroutine: t.cmd.Wait() returns once the subprocess has
\* exited; the Wait that reaps it closes the parent's pipe ends
D_WaitReturns ==
    /\ ~crashed /\ wpc = "waiting"
    /\ proc.st = "exited"
    /\ wpc' = "done"
    /\ IF proc.reaped
       THEN UNCHANGED <<proc, pipeClosed>>
       ELSE /\ proc' = [proc EXCEPT !.reaped = TRUE]
            /\ pipeClosed' = [out |-> TRUE, err |-> TRUE]
    /\ UNCHANGED <<tvars, outLines, outRead, errLines, errRead, evars, rvars,
                   dpc, hvars>>

\* D_Exited that kills the process it has just seen exit
D_Exited_ThenKill ==
    /\ ~crashed /\ dpc = "select" /\ wpc = "done"
    /\ dpc' = "finish"
    /\ proc' = [proc EXCEPT !.kill = TRUE]
    /\ UNCHANGED <<tvars, outLines, outRead, errLines, errRead, pipeClosed,
                   evars, rvars, wpc, hvars>>

\* select: case <-done
D_Exited ==
    /\ ~crashed /\ dpc = "select" /\ wpc = "done"
    /\ dpc' = "finish"
    /\ UNCHANGED <<tvars, pvars, evars, rvars, wpc, hvars>>

\* D_Timeout with the call of Kill forgotten
D_Timeout_NoKill ==
    /\ ~crashed /\ dpc = "select" /\ wpc = "waiting"
    /\ dpc' = "killed"
    /\ UNCHANGED <<tvars, pvars, evars, rvars, wpc, hvars>>

\* select: case <-time.After(5 * time.Second): t.cmd.Process.Kill().  The
\* timer is created when the select is entered, so this case is taken only
\* while done holds no value: a value on done is received before 5 seconds
\* have passed.
D_Timeout ==
    /\ ~crashed /\ dpc = "select" /\ wpc = "waiting"
    /\ dpc' = "killed"
    /\ proc' = [proc EXCEPT !.kill = TRUE]
    /\ UNCHANGED <<tvars, outLines, outRead, errLines, errRead, pipeClosed,
                   evars, rvars, wpc, hvars>>

\* <-done after the kill
D_AfterKill ==
    /\ ~crashed /\ dpc = "killed" /\ wpc = "done"
    /\ dpc' = "finish"
    /\ UNCHANGED <<tvars, pvars, evars, rvars, wpc, hvars>>

\* D_Finish that leaves the stdio handles as they are
D_Finish_KeepHandles ==
    /\ ~crashed /\ dpc = "finish"
    /\ connected' = FALSE /\ cmd' = "nil"
    /\ mu' = "free" /\ dpc' = "idle" /\ wpc' = "idle"
    /\ proc' = [proc EXCEPT !.disc = TRUE]
    /\ lastRet' = "DisconnectNil"
    /\ UNCHANGED <<stdout, stderr, pipeClosed, outLines, outRead, errLines,
                   errRead, evars, rvars, sent, errsSent, lateSend, nilSeen,
                   crashed, discCalled>>

\* close both handles, clear the fields, unlock
D_Finish ==
    /\ ~crashed /\ dpc = "finish"
    /\ pipeClosed' = [out |-> (pipeClosed.out \/ stdout # "nil"),
                      err |-> (pipeClosed.err \/ stderr # "nil")]
    /\ connected' = FALSE /\ cmd' = "nil" /\ stdout' = "nil" /\ stderr' = "nil"
    /\ mu' = "free" /\ dpc' = "idle" /\ wpc' = "idle"
    /\ proc' = [proc EXCEPT !.disc = TRUE]
    /\ lastRet' = "DisconnectNil"
    /\ UNCHANGED <<outLines, outRead, errLines, errRead, evars, rvars, sent,
                   errsSent, lateSend, nilSeen, crashed, discCalled>>

(***************************************************************************)
(* The transport under an arbitrary caller.                                *)
(***************************************************************************)
\* a caller other than ProcessQuery calls a method of the transport
\* (this caller starts one subprocess at most)
CallConnect(ctx, outcome) ==
    /\ (proc.st # "none") => outcome # "ok"
    /\ Connect(ctx, outcome)
    /\ UNCHANGED qvars
CallReceiveMessages(ctx) == ReceiveMessages(ctx) /\ UNCHANGED qvars
\* (on a platform that can send the interrupt)
CallDisconnect == Disconnect(TRUE) /\ UNCHANGED qvars

Next ==
    \/ \E o \in ConnectOutcomes : CallConnect("connCtx", o)
    \/ CallReceiveMessages("connCtx")
    \/ Cancel("connCtx")
    \/ ConsumeMsg
    \/ ConsumeErr
    \/ \E line \in StdoutInputs : ProcWriteStdout(line)
    \/ \E l \in StderrInputs : ProcWriteStderr(l)
    \/ \E code \in ExitCodes : ProcExit(code)
    \/ ProcKilled
    \/ R_NotConnected
    \/ R_CollectStderr
    \/ R_CollectReturn
    \/ R_NewScanner
    \/ R_Scan
    \/ R_Line
    \/ R_SendRecord
    \/ R_SendError
    \/ R_WaitStderr
    \/ R_HandleProcessExit
    \/ R_CloseMsg
    \/ R_CloseErr
    \/ C_NewScanner
    \/ C_Scan
    \/ CallDisconnect
    \/ D_WaitReturns
    \/ D_Exited
    \/ D_Timeout
    \/ D_AfterKill
    \/ D_Finish

Spec == Init /\ [][Next]_vars

(***************************************************************************)
(* Properties of the transport's receive cycle (checked under Spec).       *)
(***************************************************************************)
\* a receive cycle that found the transport connected (it started the
\* stderr collector), as opposed to the not-connected cycle
ConnectedCycle == cpc # "idle"
CycleOver == rpc = "done"
BothClosed == closes.msg = 1 /\ closes.err = 1
ErrKinds == {errsSent[i].kind : i \in 1..Len(errsSent)}

\* C1: on every exit path of a receive cycle each channel is closed exactly
\* once, the record channel is closed iff the error channel is (the record
\* channel is closed first, the error channel by the very next step of the
\* same goroutine, and both are closed when the goroutine has ended), and
\* nothing is sent on a channel after its close.
C1_ChannelsClosedOncePaired ==
    /\ closes.msg <= 1 /\ closes.err <= 1
    /\ closes.err = 1 => closes.msg = 1
    /\ (closes.msg = 1 /\ closes.err = 0) => rpc = "close_err"
    /\ CycleOver => BothClosed
    /\ closes.msg = 1 => rpc \in {"close_err", "done"}
    /\ ~lateSend

\* C1 witness: a cycle that ended through the recovered-panic path, after a
\* record had been delivered, with both channels closed
C1_Witness ==
    /\ CycleOver /\ BothClosed
    /\ "Panic" \in ErrKinds /\ Len(sent) >= 1

\* C2: over one receive cycle at most one error is ever sent on the error
\* channel, whatever the stdout and stderr content, the exit code, the
\* cancellation and a concurrent Disconnect.
C2_AtMostOneError == Len(errsSent) <= 1

\* C2 witness: a cycle that ended with one error sent although the context
\* was cancelled and Disconnect ran during the cycle
C2_Witness ==
    /\ CycleOver /\ ConnectedCycle /\ Len(errsSent) = 1
    /\ discCalled /\ cancelled # {}
    /\ Len(outLines) = MaxLines

\* the records of the first n lines of a stream, in order: what
\* processStdout's loop produces from them
RECURSIVE RecordsOf(_, _)
RecordsOf(lines, n) ==
    IF n = 0 THEN <<>>
    ELSE LET before == RecordsOf(lines, n - 1)
             line == lines[n]
         IN IF ~ScanTooLong(line) /\ ~TrimmedEmpty(line)
               /\ ProcessLineResult(line) = "record"
            THEN Append(before, Decode(line, n))
            ELSE before

\* C5: the records sent on the record channel are, in order and without
\* duplicates, the records of the parsable lines read from stdout so far;
\* only the record of the line in hand may be missing, and with the context
\* not cancelled nothing is missing once that line has been dealt with.
C5_RecordsInStreamOrder ==
    LET expected == RecordsOf(outLines, outRead) IN
    /\ Len(sent) <= Len(expected)
    /\ sent = SubSeq(expected, 1, Len(sent))
    /\ Len(expected) - Len(sent) <= 1
    /\ (cancelled = {} /\ rpc \notin {"line", "send_msg"}) => sent = expected

\* C5 witness: two records delivered from a stream
C5_Witness ==
    /\ Len(sent) = 2 /\ sent[1].idx < sent[2].idx
    /\ CycleOver

\* the scenario conditions of C6
AllObjectLines == \A i \in 1..Len(outLines) : outLines[i] = ObjectLine
C6_Scenario ==
    /\ CycleOver /\ ConnectedCycle
    /\ AllObjectLines
    /\ proc.st = "exited" /\ proc.code = 0
    /\ cancelled = {}
C6_Outcome ==
    /\ Len(sent) = Len(outLines)
    /\ errsSent = <<>>
    /\ BothClosed

\* C6 as stated: N well-formed lines and exit code 0, context not cancelled,
\* give N records, no error and two closed channels.
C6_AsStated == C6_Scenario => C6_Outcome

\* C6 amended: the same, for a cycle during which Disconnect is not called.
C6_RoundTripWithoutDisconnect == (C6_Scenario /\ ~discCalled) => C6_Outcome

\* C6 witness: such a cycle with as many lines as the model allows
C6_Witness ==
    /\ C6_Scenario /\ ~discCalled
    /\ Len(outLines) = MaxLines /\ Len(sent) = MaxLines

\* C7: one JSON object line on stdout, "Error: boom" on stderr, exit code 1:
\* the cycle delivers one record and then one ProcessError with exit code 1
\* whose stderr excerpt contains "boom".
C7_ProcessErrorWithStderr ==
    ( /\ CycleOver /\ ConnectedCycle
      /\ outLines = <<ObjectLine>>
      /\ errLines = <<[text |-> "Error: boom", len |-> 11]>>
      /\ proc.st = "exited" /\ proc.code = 1
      /\ cancelled = {} /\ ~discCalled )
    => ( /\ Len(sent) = 1
         /\ Len(errsSent) = 1
         /\ errsSent[1].kind = "ProcessError"
         /\ errsSent[1].code = 1
         /\ ContainsError(errsSent[1].stderr) )

\* C9: a panic in any task of the cycle is recovered; none ends the program.
C9_NoUncaughtPanic == ~crashed

\* C10: no task of the cycle observes a field Disconnect has cleared.
C10_NoClearedFieldObserved == ~(nilSeen /\ discCalled)

(***************************************************************************)
(* Cancellation of a receive cycle over a long-running subprocess, as in   *)
(* TestContextCancellation: Connect runs under one context, the cycle      *)
(* under another one, and nobody calls Disconnect.  The goroutines, the    *)
(* consumer and the writes of the subprocess are scheduled fairly; the     *)
(* subprocess is free to run for ever.                                     *)
(***************************************************************************)
ReceiveStep ==
    \/ R_NotConnected
    \/ R_CollectStderr
    \/ R_CollectReturn
    \/ R_NewScanner
    \/ R_Scan
    \/ R_Line
    \/ R_SendRecord
    \/ R_SendError
    \/ R_WaitStderr
    \/ R_HandleProcessExit
    \/ R_CloseMsg
    \/ R_CloseErr

CollectorStep ==
    \/ C_NewScanner
    \/ C_Scan

ProcWrites ==
    \/ \E line \in StdoutInputs : ProcWriteStdout(line)
    \/ \E l \in StderrInputs : ProcWriteStderr(l)

\* cancel3(): the caller cancels the context of the cycle under way
CancelCycle == rpc # "idle" /\ Cancel(recvCtx)

CancelNext ==
    \/ CallConnect("connCtx", "ok")
    \/ CallReceiveMessages("otherCtx")
    \/ CancelCycle
    \/ ConsumeMsg
    \/ ConsumeErr
    \/ ProcWrites
    \/ \E code \in ExitCodes : ProcExit(code)
    \/ ReceiveStep
    \/ CollectorStep

CancelSpec ==
    /\ Init
    /\ [][CancelNext]_vars
    /\ WF_vars(ReceiveStep)
    /\ WF_vars(CollectorStep)
    /\ WF_vars(ConsumeMsg)
    /\ WF_vars(ConsumeErr)
    /\ WF_vars(ProcWrites)

\* the context of a connected cycle is cancelled while the cycle is under
\* way and the subprocess is running
CancelledWhileRunning ==
    /\ "otherCtx" \in cancelled
    /\ ConnectedCycle /\ ~CycleOver
    /\ proc.st = "running"

\* C8: after the context passed to ReceiveMessages is cancelled while the
\* subprocess is still running, both channels are eventually closed and the
\* receive goroutine ends, without any call of Disconnect.
C8_CancelClosesChannels == CancelledWhileRunning ~> (CycleOver /\ BothClosed)

(***************************************************************************)
(* The query layer: Query starts internal.Client.ProcessQuery, which owns  *)
(* a fresh transport; each of the two runs one forwarding goroutine.  All  *)
(* three layers take their buffer sizes from the same Options.  The        *)
(* context of the query (the caller's, with the query timeout on top) is   *)
(* "connCtx".                                                              *)
(***************************************************************************)
QueryStdoutInputs == {SystemLine, UnknownLine, BadJSONLine}

\* parseMessage: nil unless data["type"] is a string that names a known
\* type; a "user" record also needs a message.content that is a string, an
\* "assistant" record one that is a list.  tkind and content are the JSON
\* kinds of data["type"] and of data["message"]["content"].
ParseMessage_KeepUnknown(data) == [idx |-> data.idx, type |-> data.type]
ParseMessage(data) ==
    IF data.nil \/ data.tkind # "string" THEN NoMessage
    ELSE IF data.type = "user"
    THEN IF data.content = "string"
         THEN [idx |-> data.idx, type |-> "user"] ELSE NoMessage
    ELSE IF data.type = "assistant"
    THEN IF data.content = "list"
         THEN [idx |-> data.idx, type |-> "assistant"] ELSE NoMessage
    ELSE IF data.type \in {"system", "result"}
    THEN [idx |-> data.idx, type |-> data.type]
    ELSE NoMessage

\* convertMessage: the typed Message of a parsed message, nil for others
ConvertMessage(raw) ==
    IF raw.type = "user" THEN [idx |-> raw.idx, type |-> "UserMessage"]
    ELSE IF raw.type = "assistant"
    THEN [idx |-> raw.idx, type |-> "AssistantMessage"]
    ELSE IF raw.type = "system" THEN [idx |-> raw.idx, type |-> "SystemMessage"]
    ELSE IF raw.type = "result" THEN [idx |-> raw.idx, type |-> "ResultMessage"]
    ELSE NoMessage

\* the error a failed Connect returns
ConnectError(outcome) ==
    IF outcome = "no_cli" THEN PlainError("CLINotFoundError")
    ELSE IF outcome \in {"args_error", "bad_cwd"} THEN PlainError("error")
    ELSE PlainError("CLIConnectionError")

\* "Try to send error without blocking": the contents the outgoing error
\* channel can have after
\*   select { case errCh <- err: case <-ctx.Done(): return
\*            default: select { case <-errCh: errCh <- err default: } }
\* select picks any of its ready cases; default runs when none is ready
ForwardError_Twice(ch, cap, err, done) == {Append(Append(ch, err), err)}
ForwardError(ch, cap, err, done) ==
    (IF Len(ch) < cap THEN {Append(ch, err)} ELSE {})
    \cup (IF done THEN {ch} ELSE {})
    \cup (IF Len(ch) >= cap /\ ~done
          THEN {IF ch # <<>> THEN Append(Tail(ch), err) ELSE ch}
          ELSE {})

\* frame of a step of the query layer that leaves the transport alone
QFrame == UNCHANGED <<tvars, pvars, cancelled, rvars, dvars, hvars>>

\* Query(ctx, prompt, options): ProcessQuery makes its channels and starts
\* its goroutine, then Query makes its own and starts the converting one
Query ==
    /\ ~crashed /\ qpc = "idle" /\ ppc = "idle"
    /\ ppc' = "connect" /\ qpc' = "select"
    /\ UNCHANGED <<pData, pMsgCh, pErrCh, pCloses, qData, qMsgCh, qErrCh, qCloses,
                   connErr, got, gotErrs, qOpts, clock,
                   environ>>
    /\ QFrame

\* the consumer of Query receives a message / an error
ReceiveMessage ==
    /\ ~crashed /\ qMsgCh # <<>>
    /\ got' = Append(got, Head(qMsgCh))
    /\ qMsgCh' = Tail(qMsgCh)
    /\ UNCHANGED <<ppc, pData, pMsgCh, pErrCh, pCloses, qpc, qData, qErrCh, qCloses,
                   connErr, gotErrs, qOpts, clock,
                   environ>>
    /\ QFrame

ReceiveError ==
    /\ ~crashed /\ qErrCh # <<>>
    /\ gotErrs' = Append(gotErrs, Head(qErrCh))
    /\ qErrCh' = Tail(qErrCh)
    /\ UNCHANGED <<ppc, pData, pMsgCh, pErrCh, pCloses, qpc, qData, qMsgCh, qCloses,
                   connErr, got, qOpts, clock,
                   environ>>
    /\ QFrame

(***************************************************************************)
(* The goroutine of ProcessQuery.  Its deferred calls run in reverse       *)
(* order: trans.Disconnect() when Connect had succeeded, then the two      *)
(* closes.  Nothing it calls panics, so its recover finds nothing.         *)
(***************************************************************************)
\* frame of a step of the ProcessQuery goroutine within the query layer
PFrame == UNCHANGED <<qpc, qData, qMsgCh, qErrCh, qCloses, got, gotErrs, qOpts,
                      clock, environ>>

\* P_Connect with the return after "errCh <- err" forgotten: the goroutine
\* goes on to ReceiveMessages on the transport that failed to connect
P_Connect_NoReturn ==
    /\ ~crashed /\ ppc = "connect"
    /\ \E o \in ConnectOutcomes :
          /\ Connect("connCtx", o)
          /\ IF o = "ok"
             THEN UNCHANGED <<pErrCh, connErr>>
             ELSE /\ pErrCh' = Append(pErrCh, ConnectError(o))
                  /\ connErr' = ConnectError(o)
    /\ ppc' = "receive"
    /\ UNCHANGED <<pData, pMsgCh, pCloses>>
    /\ PFrame

\* "if err := trans.Connect(ctx); err != nil { errCh <- err; return }"
P_Connect ==
    /\ ~crashed /\ ppc = "connect"
    /\ \E o \in ConnectOutcomes :
          /\ Connect("connCtx", o)
          /\ IF o = "ok"
             THEN /\ ppc' = "receive"
                  /\ UNCHANGED <<pErrCh, connErr>>
             ELSE /\ pErrCh' = Append(pErrCh, ConnectError(o))
                  /\ connErr' = ConnectError(o)
                  /\ ppc' = "close_msg"
    /\ UNCHANGED <<pData, pMsgCh, pCloses>>
    /\ PFrame

\* "dataCh, dataErrCh := trans.ReceiveMessages(ctx)"
P_ReceiveMessages ==
    /\ ppc = "receive"
    /\ ReceiveMessages("connCtx")
    /\ ppc' = "select"
    /\ UNCHANGED <<pData, pMsgCh, pErrCh, pCloses, connErr>>
    /\ PFrame

\* select: "case data, ok := <-dataCh", ready when a record is queued or
\* the channel is closed; a record parseMessage maps to nil is dropped
P_RecvData ==
    /\ ~crashed /\ ppc = "select"
    /\ msgCh # <<>> \/ closes.msg > 0
    /\ IF msgCh # <<>>
       THEN /\ msgCh' = Tail(msgCh)
            /\ IF ParseMessage(Head(msgCh)) # NoMessage
               THEN /\ pData' = ParseMessage(Head(msgCh))
                    /\ ppc' = "send_msg"
               ELSE UNCHANGED <<pData, ppc>>
       ELSE /\ ppc' = "disconnect"
            /\ UNCHANGED <<msgCh, pData>>
    /\ UNCHANGED <<tvars, pvars, cancelled, caps, recvCtx, rpc, rLine, rErr, rScan,
                   cpc, cScan, stderrLines, stderrRet, stderrDone, errCh, closes,
                   dvars, hvars>>
    /\ UNCHANGED <<pMsgCh, pErrCh, pCloses, connErr>>
    /\ PFrame

\* "select { case msgCh <- msg: case <-ctx.Done(): return }"
P_SendMsg ==
    /\ ~crashed /\ ppc = "send_msg"
    /\ \/ /\ Len(pMsgCh) < caps.msg
          /\ pMsgCh' = Append(pMsgCh, pData)
          /\ ppc' = "select"
       \/ /\ "connCtx" \in cancelled
          /\ ppc' = "disconnect"
          /\ UNCHANGED pMsgCh
    /\ pData' = NoMessage
    /\ UNCHANGED <<pErrCh, pCloses, connErr>>
    /\ PFrame /\ QFrame

\* select: "case err, ok := <-dataErrCh", ready when an error is queued or
\* the channel is closed; the error is forwarded without blocking and the
\* goroutine returns
P_RecvErr ==
    /\ ~crashed /\ ppc = "select"
    /\ errCh # <<>> \/ closes.err > 0
    /\ IF errCh # <<>>
       THEN /\ errCh' = Tail(errCh)
            /\ pErrCh' \in ForwardError(pErrCh, caps.err, Head(errCh),
                                        "connCtx" \in cancelled)
       ELSE UNCHANGED <<errCh, pErrCh>>
    /\ ppc' = "disconnect"
    /\ UNCHANGED <<tvars, pvars, cancelled, caps, recvCtx, rpc, rLine, rErr, rScan,
                   cpc, cScan, stderrLines, stderrRet, stderrDone, msgCh, closes,
                   dvars, hvars>>
    /\ UNCHANGED <<pData, pMsgCh, pCloses, connErr>>
    /\ PFrame

\* P_CtxDone that returns without the deferred Disconnect
P_CtxDone_NoDisconnect ==
    /\ ~crashed /\ ppc = "select"
    /\ "connCtx" \in cancelled
    /\ ppc' = "close_msg"
    /\ UNCHANGED <<pData, pMsgCh, pErrCh, pCloses, connErr>>
    /\ PFrame /\ QFrame

\* select: "case <-ctx.Done(): return"
P_CtxDone ==
    /\ ~crashed /\ ppc = "select"
    /\ "connCtx" \in cancelled
    /\ ppc' = "disconnect"
    /\ UNCHANGED <<pData, pMsgCh, pErrCh, pCloses, connErr>>
    /\ PFrame /\ QFrame

\* "defer trans.Disconnect()": the call, and its return once Disconnect has
\* released t.mu
P_Disconnect ==
    /\ ppc = "disconnect"
    /\ Disconnect(TRUE)
    /\ ppc' = "disconnecting"
    /\ UNCHANGED <<pData, pMsgCh, pErrCh, pCloses, connErr>>
    /\ PFrame

P_DisconnectReturns ==
    /\ ~crashed /\ ppc = "disconnecting"
    /\ dpc = "idle" /\ mu = "free"
    /\ ppc' = "close_msg"
    /\ UNCHANGED <<pData, pMsgCh, pErrCh, pCloses, connErr>>
    /\ PFrame /\ QFrame

\* deferred: close(msgCh), close(errCh)
P_CloseMsg ==
    /\ ~crashed /\ ppc = "close_msg"
    /\ pCloses' = [pCloses EXCEPT !.msg = @ + 1]
    /\ ppc' = "close_err"
    /\ UNCHANGED <<pData, pMsgCh, pErrCh, connErr>>
    /\ PFrame /\ QFrame

P_CloseErr ==
    /\ ~crashed /\ ppc = "close_err"
    /\ pCloses' = [pCloses EXCEPT !.err = @ + 1]
    /\ ppc' = "done"
    /\ UNCHANGED <<pData, pMsgCh, pErrCh, connErr>>
    /\ PFrame /\ QFrame

(***************************************************************************)
(* The goroutine of Query: the same loop over ProcessQuery's channels.     *)
(***************************************************************************)
\* frame of a step of the Query goroutine within the query layer
QGoFrame == UNCHANGED <<ppc, pData, pCloses, connErr, got, gotErrs, qOpts, clock,
                        environ>>

\* select: "case rawMsg, ok := <-rawMsgCh"
Q_RecvMsg ==
    /\ ~crashed /\ qpc = "select"
    /\ pMsgCh # <<>> \/ pCloses.msg > 0
    /\ IF pMsgCh # <<>>
       THEN /\ pMsgCh' = Tail(pMsgCh)
            /\ IF ConvertMessage(Head(pMsgCh)) # NoMessage
               THEN /\ qData' = ConvertMessage(Head(pMsgCh))
                    /\ qpc' = "send_msg"
               ELSE UNCHANGED <<qData, qpc>>
       ELSE /\ qpc' = "close_msg"
            /\ UNCHANGED <<pMsgCh, qData>>
    /\ UNCHANGED <<pErrCh, qMsgCh, qErrCh, qCloses>>
    /\ QGoFrame /\ QFrame

\* "select { case msgCh <- msg: case <-queryCtx.Done(): return }"
Q_SendMsg ==
    /\ ~crashed /\ qpc = "send_msg"
    /\ \/ /\ Len(qMsgCh) < caps.msg
          /\ qMsgCh' = Append(qMsgCh, qData)
          /\ qpc' = "select"
       \/ /\ "connCtx" \in cancelled
          /\ qpc' = "close_msg"
          /\ UNCHANGED qMsgCh
    /\ qData' = NoMessage
    /\ UNCHANGED <<pMsgCh, pErrCh, qErrCh, qCloses>>
    /\ QGoFrame /\ QFrame

\* select: "case err, ok := <-rawErrCh"
Q_RecvErr ==
    /\ ~crashed /\ qpc = "select"
    /\ pErrCh # <<>> \/ pCloses.err > 0
    /\ IF pErrCh # <<>>
       THEN /\ pErrCh' = Tail(pErrCh)
            /\ qErrCh' \in ForwardError(qErrCh, caps.err, Head(pErrCh),
                                        "connCtx" \in cancelled)
       ELSE UNCHANGED <<pErrCh, qErrCh>>
    /\ qpc' = "close_msg"
    /\ UNCHANGED <<pMsgCh, qData, qMsgCh, qCloses>>
    /\ QGoFrame /\ QFrame

\* select: "case <-queryCtx.Done(): return"
Q_CtxDone ==
    /\ ~crashed /\ qpc = "select"
    /\ "connCtx" \in cancelled
    /\ qpc' = "close_msg"
    /\ UNCHANGED <<pMsgCh, pErrCh, qData, qMsgCh, qErrCh, qCloses>>
    /\ QGoFrame /\ QFrame

\* deferred: close(msgCh), close(errCh)
Q_CloseMsg ==
    /\ ~crashed /\ qpc = "close_msg"
    /\ qCloses' = [qCloses EXCEPT !.msg = @ + 1]
    /\ qpc' = "close_err"
    /\ UNCHANGED <<pMsgCh, pErrCh, qData, qMsgCh, qErrCh>>
    /\ QGoFrame /\ QFrame

\* and "if cancel != nil { cancel() }", which ends the working context
Q_CloseErr ==
    /\ ~crashed /\ qpc = "close_err"
    /\ qCloses' = [qCloses EXCEPT !.err = @ + 1]
    /\ qpc' = "done"
    /\ cancelled' =
          IF AppliesTimeout(GetQueryTimeout(OptionsOrDefault(qOpts)))
          THEN cancelled \cup {"connCtx"} ELSE cancelled
    /\ UNCHANGED <<pMsgCh, pErrCh, qData, qMsgCh, qErrCh>>
    /\ UNCHANGED <<tvars, pvars, rvars, dvars, hvars>>
    /\ QGoFrame

(***************************************************************************)
(* One Query from its call to the end of its goroutines.                   *)
(***************************************************************************)
QueryNext ==
    \/ Query
    \/ Cancel("connCtx")
    \/ ReceiveMessage
    \/ ReceiveError
    \/ P_Connect
    \/ P_ReceiveMessages
    \/ P_RecvData
    \/ P_SendMsg
    \/ P_RecvErr
    \/ P_CtxDone
    \/ P_Disconnect
    \/ P_DisconnectReturns
    \/ P_CloseMsg
    \/ P_CloseErr
    \/ Q_RecvMsg
    \/ Q_SendMsg
    \/ Q_RecvErr
    \/ Q_CtxDone
    \/ Q_CloseMsg
    \/ Q_CloseErr
    \/ \E line \in QueryStdoutInputs : ProcWriteStdout(line)
    \/ \E l \in StderrInputs : ProcWriteStderr(l)
    \/ \E code \in ExitCodes : ProcExit(code)
    \/ ProcKilled
    \/ R_CollectStderr
    \/ R_CollectReturn
    \/ R_NewScanner
    \/ R_Scan
    \/ R_Line
    \/ R_SendRecord
    \/ R_SendError
    \/ R_WaitStderr
    \/ R_HandleProcessExit
    \/ R_CloseMsg
    \/ R_CloseErr
    \/ C_NewScanner
    \/ C_Scan
    \/ D_WaitReturns
    \/ D_Exited
    \/ D_Timeout
    \/ D_AfterKill
    \/ D_Finish

QuerySpec == Init /\ [][QueryNext]_vars

(***************************************************************************)
(* Properties of a Query (checked under QuerySpec).                        *)
(***************************************************************************)
\* both goroutines of the query have ended and the consumer has received
\* everything Query's channels held
QueryOver ==
    /\ qpc = "done" /\ ppc = "done"
    /\ qMsgCh = <<>> /\ qErrCh = <<>>

\* the failures of the run: the error of Connect, or what the transport
\* sent on its error channel
Failures == IF connErr # NoError THEN <<connErr>> ELSE errsSent

\* the messages of the records the transport sent, in order, without those
\* parseMessage or convertMessage map to nil
RECURSIVE MessagesOf(_)
MessagesOf(records) ==
    IF records = <<>> THEN <<>>
    ELSE IF ConvertMessage(ParseMessage(Head(records))) # NoMessage
         THEN <<ConvertMessage(ParseMessage(Head(records)))>>
              \o MessagesOf(Tail(records))
         ELSE MessagesOf(Tail(records))

\* C3: in a run of Query whose context is never cancelled the consumer sees
\* a clean close when nothing failed and otherwise exactly the one failure
\* (of Connect, or sent by the transport) before the error channel closes.
C3_FailureReachesConsumer ==
    (QueryOver /\ cancelled = {} /\ ~crashed) => gotErrs = Failures

\* C4: in a run of Query whose context is never cancelled every record the
\* transport sent that maps to a non-nil message reaches the consumer
\* exactly once and in order before the message channel closes.  Stated for
\* the runs in which nothing failed, where no error competes with the
\* records and the upstream channels are just closed.
C4_RecordsReachConsumer ==
    (QueryOver /\ cancelled = {} /\ ~crashed /\ Failures = <<>>)
    => got = MessagesOf(sent)

(***************************************************************************)
(* Further properties of the transport's receive cycle (under Spec).       *)
(***************************************************************************)
\* processStdout's scanner has consumed everything the subprocess wrote and
\* has seen the end of the stream
StdoutAtEOF == outRead = Len(outLines) /\ proc.st = "exited"

\* C11: the receive goroutine reaches t.cmd.Wait() in handleProcessExit only
\* after stdout has been read to end-of-file; it never starts waiting for
\* the exit while unread stdout output remains.
C11_WaitOnlyAfterStdoutEOF == (rpc = "wait") => StdoutAtEOF

\* the subprocess was ended by a signal rather than by its own exit
ProcWasKilled == proc.st = "exited" /\ proc.code = -1

\* C12: cancelling the context never by itself ends the subprocess: a
\* subprocess ended by a signal was signalled by Disconnect (its interrupt
\* or its kill).
C12_KilledOnlyByDisconnect == ProcWasKilled => (proc.sigint \/ proc.kill)

\* C13: once an error has been sent on the error channel of a cycle, no
\* record is sent on the record channel and no further stdout line is read.
C13_ProducerStopsAfterError ==
    [][errsSent # <<>> => (sent' = sent /\ outRead' = outRead)]_vars

\* C13 witness: a cycle that ended with a decode error on its first line and
\* left the next line of stdout, a well-formed one, unread and unsent
C13_Witness ==
    /\ CycleOver /\ ConnectedCycle
    /\ Len(errsSent) = 1 /\ errsSent[1].kind = "JSONDecodeError"
    /\ outLines = <<BadJSONLine, ObjectLine>>
    /\ outRead = 1 /\ sent = <<>>

AllStdoutInputs ==
    {ObjectLine, UnknownLine, SystemLine, NullLine, BadJSONLine, NoiseLine,
     BlankLine, HugeLine, ArrayLine, ScalarLine, IndentedBadLine,
     LongBadJSONLine}

LineNext ==
    \/ CallConnect("connCtx", "ok")
    \/ CallReceiveMessages("connCtx")
    \/ Cancel("connCtx")
    \/ ConsumeMsg
    \/ ConsumeErr
    \/ \E line \in AllStdoutInputs : ProcWriteStdout(line)
    \/ \E l \in StderrInputs : ProcWriteStderr(l)
    \/ \E code \in ExitCodes : ProcExit(code)
    \/ ProcKilled
    \/ ReceiveStep
    \/ CollectorStep

LineSpec == Init /\ [][LineNext]_vars

\* a connected cycle has ended and its context was never cancelled
QuietCycleOver == CycleOver /\ ConnectedCycle /\ cancelled = {}

\* the scanner has been handed a line longer than the maximum line size
HugeLineRead == \E i \in 1..outRead : outLines[i] = HugeLine

\* C15: a stdout line longer than the maximum line size makes the cycle send
\* exactly one CLIJSONDecodeError of the oversized kind, and no stdout line
\* after it is read.
C15_OversizedLineDecodeFailure ==
    (QuietCycleOver /\ HugeLineRead)
    => ( /\ Len(errsSent) = 1
         /\ errsSent[1].kind = "JSONDecodeError"
         /\ errsSent[1].line = "[JSON too large]"
         /\ outLines[outRead] = HugeLine )

\* the line processLine was given last: the last line read, trimmed
LastLine == TrimSpace(outLines[outRead])

\* a line within the maximum line size that starts with '{' or '[' and does
\* not parse as a JSON object
Malformed(raw) ==
    /\ ~ScanTooLong(raw)
    /\ LooksLikeJSON(TrimSpace(raw))
    /\ ~UnmarshalOK(TrimSpace(raw))
MalformedLineRead == \E i \in 1..outRead : Malformed(outLines[i])

\* what every cycle that read a malformed line does: exactly one
\* CLIJSONDecodeError with the parse error, and that line is the last read
OneDecodeErrorEndsLoop ==
    /\ Len(errsSent) = 1
    /\ errsSent[1].kind = "JSONDecodeError"
    /\ errsSent[1].cause # ""
    /\ Malformed(outLines[outRead])
    /\ \A i \in 1..(outRead - 1) : ~Malformed(outLines[i])

\* C16 as stated: a line that starts with '{' or '[' and does not parse as a
\* JSON object makes the cycle send exactly one CLIJSONDecodeError, which
\* carries the parse error and an excerpt of the line of at most 200
\* characters, and ends the read loop.
C16_AsStated ==
    (QuietCycleOver /\ MalformedLineRead)
    => ( /\ OneDecodeErrorEndsLoop
         /\ Len(errsSent[1].line) <= DecodeExcerptLength
         /\ errsSent[1].line = SubSeq(LastLine, 1, Len(errsSent[1].line)) )

\* C16 amended: the same, where the error carries the line itself when it
\* has at most 200 characters and otherwise its first 200 characters
\* followed by "...".
C16_DecodeErrorCarriesExcerpt ==
    (QuietCycleOver /\ MalformedLineRead)
    => ( /\ OneDecodeErrorEndsLoop
         /\ Len(errsSent[1].line) <= DecodeExcerptLength + 3
         /\ IF Len(LastLine) <= DecodeExcerptLength
            THEN errsSent[1].line = LastLine
            ELSE errsSent[1].line
                    = SubSeq(LastLine, 1, DecodeExcerptLength) \o "..." )

\* C16 witness: a malformed line of 251 characters ended the cycle with an
\* error that carries 203, the well-formed line after it left unread
C16_Witness ==
    /\ QuietCycleOver
    /\ outLines = <<LongBadJSONLine, ObjectLine>>
    /\ outRead = 1 /\ sent = <<>>
    /\ Len(errsSent) = 1 /\ Len(errsSent[1].line) = DecodeExcerptLength + 3

\* a line within the maximum line size that is empty or blank, or that does
\* not parse as a JSON object and does not start with '{' or '['
Skipped(raw) ==
    /\ ~ScanTooLong(raw)
    /\ \/ TrimmedEmpty(raw)
       \/ /\ ~UnmarshalOK(TrimSpace(raw))
          /\ ~LooksLikeJSON(TrimSpace(raw))

\* C17: a line that is empty or blank, or that does not parse as a JSON
\* object and does not start with '{' or '[', gives no record and no error,
\* and the read loop goes on: when such a line is the last one read, the
\* loop has reached the end of the stream.
C17_SkippedLinesYieldNothing ==
    QuietCycleOver
    => ( /\ \A i \in 1..Len(sent) : ~Skipped(outLines[sent[i].idx])
         /\ (outRead >= 1 /\ Skipped(outLines[outRead]))
            => ( /\ \A i \in 1..Len(errsSent) : errsSent[i].kind = "ProcessError"
                 /\ StdoutAtEOF ) )

\* C17 witness: plain text, then a JSON object: one record, of the second
\* line, and no error
C17_Witness ==
    /\ QuietCycleOver
    /\ outLines = <<NoiseLine, ObjectLine>>
    /\ Len(sent) = 1 /\ sent[1].idx = 2
    /\ errsSent = <<>>

(***************************************************************************)
(* Cancellation and process exit in the receive cycle (under Spec).        *)
(***************************************************************************)
\* the receive goroutine is in its deferred function or has ended
Unwinding == rpc \in {"close_msg", "close_err", "done"}

\* C18: the producer leaves the send of a record either by sending it or,
\* with the context cancelled, by abandoning it: the record is then not
\* sent, no error is sent, and the goroutine goes to close both channels;
\* with the context not cancelled it stays blocked on a full channel.
C18_SendAbandonedOnlyOnCancel ==
    /\ [][(rpc = "send_msg" /\ rpc' # "send_msg")
          => \/ /\ sent' = Append(sent, rLine)
                /\ rpc' = "scan"
             \/ /\ recvCtx \in cancelled
                /\ sent' = sent /\ errsSent' = errsSent
                /\ rpc' = "close_msg"]_vars
    /\ [][Unwinding => (sent' = sent /\ errsSent' = errsSent /\ Unwinding')]_vars

\* C18 witness: the cycle is over with both channels closed and no error,
\* the subprocess still running: the second record was abandoned on the
\* cancelled context while the first still fills the record channel
C18_Witness ==
    /\ CycleOver /\ ConnectedCycle /\ BothClosed
    /\ proc.st = "running" /\ ~discCalled
    /\ recvCtx \in cancelled
    /\ errsSent = <<>>
    /\ outRead = 2 /\ Len(sent) = 1 /\ msgCh = sent

\* the stderr lines the subprocess wrote contain "error"
StderrWrittenHasError == ContainsError(JoinText(errLines))

\* a cycle that ran undisturbed over well-formed output to the exit of the
\* subprocess
CleanRunOver ==
    /\ QuietCycleOver /\ ~discCalled
    /\ \A i \in 1..Len(outLines) : outLines[i] \in {ObjectLine, NoiseLine}

\* C19: a ProcessError is sent only for a subprocess that exited non-zero
\* and whose stderr contains "error": after a non-zero exit with empty or
\* benign stderr the cycle sends no error and closes both channels, and
\* after exit code 0 it sends no ProcessError whatever stderr holds.
C19_ProcessErrorOnlyForErrorExit ==
    /\ \A i \in 1..Len(errsSent) :
          errsSent[i].kind = "ProcessError"
          => (proc.st = "exited" /\ proc.code # 0 /\ StderrWrittenHasError)
    /\ (CleanRunOver /\ proc.code # 0 /\ ~StderrWrittenHasError)
       => (errsSent = <<>> /\ BothClosed)

\* C19 witness: exit code 1 with a collected stderr line that does not
\* contain "error": no error, both channels closed
C19_Witness ==
    /\ CleanRunOver /\ proc.code = 1
    /\ stderrRet # <<>> /\ ~ContainsError(JoinText(stderrRet))
    /\ errsSent = <<>> /\ BothClosed

\* ReceiveMessages has returned from a call that found the transport not
\* connected
NotConnectedCycle == rpc \notin {"idle", "collect"} /\ cpc = "idle"

\* the outcome of such a call: exactly one CLIConnectionError "Not
\* connected" sent, both channels closed, no record
NotConnectedOutcome ==
    /\ errsSent = <<PlainError("NotConnected")>>
    /\ BothClosed
    /\ sent = <<>> /\ msgCh = <<>>

\* no task reading stdout or stderr has been started
NoReaderStarted == cpc = "idle" /\ rScan = "none" /\ outRead = 0 /\ errRead = 0

\* C20 as stated: when ReceiveMessages returns from a call on a transport
\* that is not connected, the error channel already holds exactly one "Not
\* connected" error and is closed, the record channel is closed and empty,
\* and no reading task is started.
C20_AsStated == NotConnectedCycle => (NotConnectedOutcome /\ NoReaderStarted)

\* what does hold of such a call: once the task it started has ended the
\* channels are as stated, and no reading task is started at any time
NotConnectedEventually ==
    NotConnectedCycle
    => ( /\ NoReaderStarted
         /\ CycleOver => NotConnectedOutcome )

\* such a cycle is over and its error still sits in the closed error channel
NotConnectedCycleOver ==
    /\ NotConnectedCycle /\ CycleOver
    /\ errCh = <<PlainError("NotConnected")>>
    /\ BothClosed

(***************************************************************************)
(* The life cycle of the transport (LifeSpec): a caller that connects,     *)
(* disconnects and reconnects, asks IsConnected and runs one receive       *)
(* cycle, on a platform that may or may not be able to send the interrupt. *)
(* The subprocess writes nothing here; it runs until it exits or is        *)
(* signalled.                                                              *)
(***************************************************************************)
\* SubprocessCLITransport.IsConnected(): lock, read the three fields, unlock
IsConnected ==
    /\ ~crashed /\ mu = "free"
    /\ lastRet' = IF IsConnectedValue THEN "IsConnTrue" ELSE "IsConnFalse"
    /\ UNCHANGED <<tvars, pvars, cancelled, rvars, dvars, sent, errsSent,
                   lateSend, nilSeen, crashed, discCalled>>

\* no goroutine of a receive cycle is running
NoCycleRunning == rpc \in {"idle", "done"} /\ cpc \in {"idle", "done"}

\* the caller's calls; it starts a further subprocess only between cycles
LifeConnect(ctx, outcome) ==
    /\ (outcome = "ok" /\ proc.st # "none") => NoCycleRunning
    /\ Connect(ctx, outcome)
    /\ UNCHANGED qvars
LifeDisconnect(canInterrupt) == Disconnect(canInterrupt) /\ UNCHANGED qvars
LifeIsConnected == IsConnected /\ UNCHANGED qvars

\* the subprocess dies of the kill signal Disconnect sent
ProcForceKilled == proc.kill /\ ProcKilled

LifeNext ==
    \/ \E o \in ConnectOutcomes : LifeConnect("connCtx", o)
    \/ \E b \in BOOLEAN : LifeDisconnect(b)
    \/ LifeIsConnected
    \/ CallReceiveMessages("connCtx")
    \/ Cancel("connCtx")
    \/ ConsumeErr
    \/ \E code \in ExitCodes : ProcExit(code)
    \/ ProcKilled
    \/ R_NotConnected
    \/ R_CollectStderr
    \/ R_CollectReturn
    \/ R_NewScanner
    \/ R_Scan
    \/ R_SendError
    \/ R_WaitStderr
    \/ R_HandleProcessExit
    \/ R_CloseMsg
    \/ R_CloseErr
    \/ C_NewScanner
    \/ C_Scan
    \/ D_WaitReturns
    \/ D_Exited
    \/ D_Timeout
    \/ D_AfterKill
    \/ D_KillWait
    \/ D_Finish

LifeSpec == Init /\ [][LifeNext]_vars

\* subprocesses started by the transport that are running and that no
\* completed Disconnect has followed
LiveSubprocesses ==
    proc.orphans + (IF proc.st = "running" /\ ~proc.disc THEN 1 ELSE 0)

\* C21: Connect on a connected transport returns nil and starts nothing, so
\* at any time at most one subprocess started by the transport is running
\* and not yet disconnected.
C21_AtMostOneLiveSubprocess ==
    /\ [](LiveSubprocesses <= 1)
    /\ [][lastRet # "ConnectNoop" /\ lastRet' = "ConnectNoop"
          => UNCHANGED <<tvars, pvars>>]_vars

\* C21 witness: Connect has returned nil on a transport that a second
\* subprocess, started after a Disconnect, keeps connected
C21_Witness ==
    /\ lastRet = "ConnectNoop" /\ connected
    /\ proc.gen = 2 /\ proc.st = "running"

\* C22: whenever Connect has returned an error, IsConnected is false and no
\* subprocess started by the transport is running, until the next call
\* returns.
C22_FailedConnectLeavesNothing ==
    lastRet = "ConnectErr"
    => ( /\ ~IsConnectedValue
         /\ proc.st # "running" /\ proc.orphans = 0 )

\* C22 witness: Connect has failed at cmd.Start (t.cmd replaced, never
\* started) on a transport that had run and disconnected a subprocess
C22_Witness ==
    /\ lastRet = "ConnectErr" /\ cmd = "unstarted"
    /\ proc.gen = 1 /\ proc.disc

\* C23: whenever neither Connect nor Disconnect is in progress (t.mu is
\* free), t.stdout and t.stderr are both non-nil if and only if t.connected
\* is true; in particular after a failed Connect and after a Disconnect.
C23_HandlesIffConnected ==
    (mu = "free")
    => ((stdout # "nil" /\ stderr # "nil") <=> connected)

\* C23 witness: a Connect that got past the command line has failed on a
\* transport that never ran a subprocess, and both handles are nil
C23_Witness ==
    /\ mu = "free" /\ lastRet = "ConnectErr" /\ cmd = "unstarted"
    /\ proc.gen = 0 /\ ~connected
    /\ stdout = "nil" /\ stderr = "nil"

\* C24: Disconnect is idempotent.  Every return of Disconnect leaves
\* IsConnected false; a call on a transport that is not connected (a second
\* call in a row, or a call on a transport never connected) returns at once,
\* sends no signal and changes no field of the transport.
C24_DisconnectIdempotent ==
    /\ [](lastRet \in {"DisconnectNil", "DisconnectNoop"} => ~IsConnectedValue)
    /\ [](~connected => (dpc = "idle" /\ wpc = "idle" /\ mu = "free"))
    /\ [][lastRet # "DisconnectNoop" /\ lastRet' = "DisconnectNoop"
          => UNCHANGED <<tvars, pvars, dvars>>]_vars

\* C24 witness: Disconnect has returned from a call on a transport that an
\* earlier Disconnect had already disconnected
C24_Witness ==
    /\ lastRet = "DisconnectNoop"
    /\ proc.gen = 1 /\ proc.disc /\ ~connected /\ cmd = "nil"

\* C25: after Disconnect has returned from a call on a connected transport
\* (the process exited on the interrupt, the grace period expired, or the
\* interrupt could not be sent), connected is false, cmd, stdout and stderr
\* are nil and both stdio handles are closed.
C25_DisconnectClearsSession ==
    lastRet = "DisconnectNil"
    => ( /\ ~connected
         /\ cmd = "nil" /\ stdout = "nil" /\ stderr = "nil"
         /\ pipeClosed.out /\ pipeClosed.err )

\* C25 witness: Disconnect has returned after the interrupt could not be
\* sent and the kill ended the subprocess
C25_Witness ==
    /\ lastRet = "DisconnectNil"
    /\ proc.kill /\ ~proc.sigint /\ ProcWasKilled /\ proc.disc

\* a step in which Disconnect calls t.cmd.Process.Kill()
KillCalled == proc'.kill /\ ~proc.kill

\* C26: Disconnect sends the interrupt first and calls Kill only from the
\* timer case of its select, when the grace period has elapsed and Wait has
\* not returned the exit of the process, or right after an interrupt that
\* could not be sent; when the exit arrives within the grace period it goes
\* on without calling Kill.
C26_KillOnlyAfterGraceOrFailedSignal ==
    /\ [][KillCalled
          => \/ (dpc = "select" /\ wpc = "waiting" /\ dpc' = "killed"
                   /\ proc.sigint)
             \/ (dpc = "idle" /\ dpc' \in {"kill_wait", "finish"}
                   /\ ~proc'.sigint)]_vars
    /\ [][(dpc = "select" /\ dpc' = "finish") => ~proc'.kill]_vars
    /\ [](proc.kill /\ proc.sigint => dpc \in {"killed", "finish", "idle"})

\* C26 witness: the grace period has elapsed on a subprocess that ignored
\* the interrupt, and Disconnect has called Kill
C26_Witness ==
    /\ dpc = "killed" /\ proc.sigint /\ proc.kill
    /\ proc.st = "running"

\* LifeSpec with the scheduling the code relies on: the goroutines of
\* Disconnect are scheduled, its 5 second timer fires, and a subprocess that
\* was sent the kill signal exits.  Nothing makes the subprocess exit by
\* itself or on the interrupt.
DisconnectStep ==
    \/ D_WaitReturns
    \/ D_Exited
    \/ D_Timeout
    \/ D_AfterKill
    \/ D_KillWait
    \/ D_Finish

LifeFairSpec ==
    /\ Init
    /\ [][LifeNext]_vars
    /\ WF_vars(DisconnectStep)
    /\ WF_vars(ProcForceKilled)

\* C27: every call of Disconnect eventually returns, given that a
\* force-killed subprocess exits: also when the subprocess ignores the
\* interrupt, has already exited, or is being waited for by a receive cycle.
C27_DisconnectReturns == (dpc # "idle") ~> (dpc = "idle" /\ mu = "free")

\* C27 witness: Disconnect and the receive goroutine's handleProcessExit
\* are both waiting for the same subprocess
C27_Witness ==
    /\ dpc = "select" /\ wpc = "waiting"
    /\ rpc = "wait" /\ ~proc.reaped

\* some Connect has succeeded and no Disconnect has completed since
ConnectedSession == proc.gen >= 1 /\ ~proc.disc

\* C28: IsConnected changes no field of the transport, and it returns true
\* only if some Connect has succeeded that no completed Disconnect has
\* followed, also when other calls and a receive cycle run alongside it.
C28_IsConnectedPure ==
    /\ [](lastRet = "IsConnTrue" => ConnectedSession)
    /\ [][lastRet' \in {"IsConnTrue", "IsConnFalse"} /\ lastRet' # lastRet
          => UNCHANGED <<tvars, pvars, dvars>>]_vars

\* C28 witness: IsConnected has returned true while the goroutines of a
\* receive cycle were running
C28_Witness ==
    /\ lastRet = "IsConnTrue"
    /\ rpc \notin {"idle", "done"} /\ cpc = "scan"
    /\ proc.st = "running"

\* C29: IsConnected returns true only while the subprocess started by
\* Connect is still running; once that subprocess has exited it returns
\* false, even if Disconnect has not been called.
C29_TrueOnlyWhileRunning ==
    [][lastRet' = "IsConnTrue" /\ lastRet' # lastRet
          => proc.st = "running"]_vars

(***************************************************************************)
(* A subprocess that floods stderr (FloodSpec): it writes MaxFlood lines,  *)
(* each as soon as the collector has taken the one before, while the       *)
(* collector of a receive cycle reads them.                                *)
(***************************************************************************)
FloodLine == [text |-> "note", len |-> 4]

ProcFloodStderr ==
    /\ ~crashed /\ proc.st = "running"
    /\ Len(errLines) < MaxFlood /\ errRead = Len(errLines)
    /\ errLines' = Append(errLines, FloodLine)
    /\ UNCHANGED <<tvars, proc, outLines, outRead, errRead, pipeClosed, evars,
                   rvars, dvars, hvars>>

\* stderr lines at and beyond the length limit
LongLineInputs ==
    { [text |-> "long", len |-> n] :
        n \in {MaxStderrLineLength, MaxStderrLineLength + 1,
               4 * MaxStderrLineLength} }

\* the subprocess starts its stderr output with a long line
ProcWriteLongStderr(l) ==
    /\ ~crashed /\ proc.st = "running"
    /\ Len(errLines) < MaxLongLines /\ errRead = Len(errLines)
    /\ errLines' = Append(errLines, l)
    /\ UNCHANGED <<tvars, proc, outLines, outRead, errRead, pipeClosed, evars,
                   rvars, dvars, hvars>>

FloodNext ==
    \/ CallConnect("connCtx", "ok")
    \/ CallReceiveMessages("connCtx")
    \/ R_CollectStderr
    \/ C_NewScanner
    \/ C_Scan
    \/ ProcFloodStderr
    \/ \E l \in LongLineInputs : ProcWriteLongStderr(l)
    \/ \E code \in ExitCodes : ProcExit(code)

FloodSpec == Init /\ [][FloodNext]_vars

\* how many of the retained lines are the truncation marker
MarkerCount ==
    Cardinality({i \in 1..Len(stderrLines) : stderrLines[i] = TruncationMarker})

\* C30: at every point of the collector's run it retains at most 1001
\* lines (1000 lines and one truncation marker) however many lines the
\* subprocess writes, and the marker is appended exactly once, when the
\* first line beyond the cap arrives.
C30_StderrBounded ==
    /\ Len(stderrLines) <= MaxStderrLines + 1
    /\ Len(stderrLines) = (IF errRead <= MaxStderrLines THEN errRead
                           ELSE MaxStderrLines + 1)
    /\ MarkerCount = (IF errRead > MaxStderrLines THEN 1 ELSE 0)
    /\ (errRead > MaxStderrLines)
          => stderrLines[MaxStderrLines + 1] = TruncationMarker

\* C30 witness: the collector has read three lines beyond the cap
C30_Witness ==
    /\ errRead = MaxStderrLines + 3
    /\ Len(stderrLines) = MaxStderrLines + 1

(***************************************************************************)
(* Queries under cancellation (QueryFairSpec): QuerySpec with the          *)
(* goroutine of Query scheduled whenever it can take a step.  Nothing is   *)
(* assumed of the subprocess, of the transport's goroutines, of            *)
(* ProcessQuery or of the consumer.                                        *)
(***************************************************************************)
QueryStep ==
    \/ Q_RecvMsg
    \/ Q_SendMsg
    \/ Q_RecvErr
    \/ Q_CtxDone
    \/ Q_CloseMsg
    \/ Q_CloseErr

QueryFairSpec ==
    /\ Init
    /\ [][QueryNext]_vars
    /\ WF_vars(QueryStep)

\* the context given to Query has been cancelled during the query
QueryCancelled == qpc # "idle" /\ "connCtx" \in cancelled
QueryChannelsClosed == qCloses.msg = 1 /\ qCloses.err = 1

\* C31: after the context passed to Query is cancelled, both channels
\* returned by Query are eventually closed, whatever the subprocess, the
\* transport and the consumer do.
C31_CancelClosesQueryChannels == QueryCancelled ~> QueryChannelsClosed

\* what does hold: the channels are closed unless the host program has
\* been ended by the stderr collector's unrecovered panic
CancelClosesUnlessCrashed == QueryCancelled ~> (QueryChannelsClosed \/ crashed)

(***************************************************************************)
(* The working context of Query (TimeoutSpec): Query is called with any    *)
(* options, time passes, the caller may cancel its context, and Query's    *)
(* goroutine ends on the working context.  "connCtx" is the working        *)
(* context queryCtx, "callerCtx" the context the caller passed.            *)
(***************************************************************************)
TimeoutOptions ==
    {NilOptions} \cup
    { [nil |-> FALSE, QueryTimeout |-> n,
       MessageBufferSize |-> 1, ErrorBufferSize |-> 1] :
        n \in -1..MaxQueryTimeout }

TimeoutInit ==
    /\ InitButOptions
    /\ qOpts \in TimeoutOptions
    /\ caps = ChannelCaps(OptionsOrDefault(qOpts))
    /\ environ = HostEnviron

\* the caller cancels ctx; queryCtx is ctx itself or, under
\* context.WithTimeout, a child that is cancelled with it
CallerCancel ==
    /\ ~crashed /\ "callerCtx" \notin cancelled
    /\ cancelled' = cancelled \cup {"callerCtx", "connCtx"}
    /\ UNCHANGED <<tvars, pvars, rvars, dvars, hvars, qvars>>

\* half a second passes; the timer of context.WithTimeout ends queryCtx
\* when its duration has elapsed
Tick ==
    /\ ~crashed /\ qpc # "idle" /\ clock < MaxClock
    /\ clock' = clock + 1
    /\ LET timeout == GetQueryTimeout(OptionsOrDefault(qOpts)) IN
       cancelled' = IF AppliesTimeout(timeout) /\ clock' >= timeout
                    THEN cancelled \cup {"connCtx"} ELSE cancelled
    /\ UNCHANGED <<tvars, pvars, rvars, dvars, hvars, ppc, pData, pMsgCh, pErrCh,
                   pCloses, qpc, qData, qMsgCh, qErrCh, qCloses, connErr, got,
                   gotErrs, qOpts, environ>>

TimeoutNext ==
    \/ Query
    \/ CallerCancel
    \/ Tick
    \/ Q_CtxDone
    \/ Q_CloseMsg
    \/ Q_CloseErr

TimeoutSpec == TimeoutInit /\ [][TimeoutNext]_vars

\* a timeout was asked for and that many seconds have elapsed
TimeoutElapsed ==
    /\ ~qOpts.nil /\ qOpts.QueryTimeout > 0
    /\ clock >= 2 * qOpts.QueryTimeout

\* C32: until Query's goroutine has ended, the working context is done
\* exactly when the caller's context is cancelled or QueryTimeout seconds
\* have elapsed; with nil options or QueryTimeout <= 0 only the caller's
\* context ends it.
C32_WorkingContextDone ==
    (qpc # "done")
    => (("connCtx" \in cancelled)
           <=> ("callerCtx" \in cancelled \/ TimeoutElapsed))

\* C32 witness: a QueryTimeout of one second has ended the working context
\* of a running query whose caller has not cancelled
C32_Witness ==
    /\ qpc = "select" /\ qOpts.QueryTimeout = 1 /\ clock = 2
    /\ "callerCtx" \notin cancelled /\ "connCtx" \in cancelled

\* a step that sends an error on the error channel Query returned (an
\* eviction followed by a send leaves the length as it was)
QueryErrorSent == qErrCh' # qErrCh /\ Len(qErrCh') >= Len(qErrCh)

\* C33: over one call of Query at most one error is ever sent on the
\* returned error channel: an error is sent only when none was sent before.
C33_QueryAtMostOneError ==
    /\ [](Len(gotErrs) + Len(qErrCh) <= 1)
    /\ [][QueryErrorSent => (qErrCh = <<>> /\ gotErrs = <<>>)]_vars

\* C33 witness: the consumer has received an error of the transport and
\* Query's error channel has been closed
C33_Witness ==
    /\ Len(gotErrs) = 1 /\ gotErrs = errsSent
    /\ qCloses.err = 1 /\ qpc = "done"

\* the collector has retained a line of the subprocess that was longer than
\* the limit
LongLineRetained ==
    /\ errRead >= 1 /\ errLines[1].len > MaxStderrLineLength
    /\ Len(stderrLines) >= 1

\* C34: every stderr line the collector retains has at most 1000
\* characters, whatever the length of the line the subprocess wrote.
C34_RetainedLineAtMost1000 ==
    \A i \in 1..Len(stderrLines) : stderrLines[i].len <= MaxStderrLineLength

\* what holds instead: a retained line has at most 1003 characters, the
\* first 1000 of a longer line being followed by "..."
RetainedLineAtMost1003 ==
    /\ \A i \in 1..Len(stderrLines) :
          stderrLines[i].len <= MaxStderrLineLength + 3
    /\ LongLineRetained => stderrLines[1].len = MaxStderrLineLength + 3

\* a step in which Disconnect calls t.cmd.Wait(): in its goroutine after the
\* interrupt, or directly after Kill when the signal could not be sent
DisconnectWaits ==
    /\ dpc = "idle" /\ dpc' # "idle"
    /\ cmd = "started"

\* a step in which handleProcessExit's t.cmd.Wait() returns
ExitHandlingWaits ==
    /\ rpc = "wait" /\ rpc' # "wait"
    /\ cmd = "started"

\* C35: the subprocess is waited on at most once per session: a call of
\* t.cmd.Wait(), in Disconnect or in handleProcessExit, is made only for a
\* process that has not been waited for and while the other caller is not
\* waiting for it.
C35_WaitAtMostOnce ==
    /\ [][DisconnectWaits => (~proc.reaped /\ rpc # "wait")]_vars
    /\ [][ExitHandlingWaits =>
            (~proc.reaped /\ wpc # "waiting" /\ dpc # "kill_wait")]_vars

\* the two calls of Wait overlap: Disconnect's goroutine and
\* handleProcessExit both wait for the same unreaped process
OverlappingWaits ==
    /\ wpc = "waiting" /\ rpc = "wait" /\ cmd = "started" /\ ~proc.reaped

\* ProcessQuery's goroutine has left its loop and is running, or has run,
\* the closes of its output channels
ProcessQueryClosing == ppc \in {"close_msg", "close_err", "done"}

\* ProcessQuery's Connect succeeded
ProcessQueryConnected == ppc # "idle" /\ ppc # "connect" /\ connErr = NoError

\* the step in which ProcessQuery's goroutine calls trans.Disconnect()
ProcessQueryDisconnects == ppc = "disconnect" /\ ppc' = "disconnecting"

\* C36: when ProcessQuery's Connect succeeded, its goroutine calls
\* Disconnect on the transport exactly once on every way out of its loop:
\* the call is the first Disconnect of the transport, the goroutine reaches
\* the closes of its output channels only from a Disconnect that has
\* returned, and the channels are closed only on a disconnected transport.
C36_DisconnectOnceBeforeCloses ==
    /\ []((ProcessQueryClosing /\ ProcessQueryConnected)
            => (discCalled /\ proc.disc /\ dpc = "idle" /\ mu = "free"
                /\ ~connected /\ cmd = "nil"))
    /\ []((~ProcessQueryClosing) => (pCloses.msg = 0 /\ pCloses.err = 0))
    /\ [][ProcessQueryDisconnects => (~discCalled /\ ~proc.disc)]_vars
    /\ [][(ProcessQueryClosing' /\ ~ProcessQueryClosing)
            => \/ (ppc = "connect" /\ connErr' # NoError)
               \/ (ppc = "disconnecting" /\ discCalled
                   /\ dpc = "idle" /\ mu = "free")]_vars

\* C36 witness: a cancelled query whose Connect had succeeded has closed
\* both channels of ProcessQuery after Disconnect had to kill the process
C36_Witness ==
    /\ ppc = "done" /\ connErr = NoError /\ "connCtx" \in cancelled
    /\ pCloses = [msg |-> 1, err |-> 1]
    /\ proc.disc /\ proc.kill

(***************************************************************************)
(* Queries over every kind of record (ParseSpec): a query whose context    *)
(* is never cancelled, with a subprocess that writes JSON objects of every *)
(* kind parseMessage tells apart and nothing on stderr.                    *)
(***************************************************************************)
ParseStdoutInputs ==
    {UnknownLine, NoTypeLine, NumTypeLine, ObjectLine, BadUserLine,
     UserLine, AssistantLine, SystemLine}

\* the steps of an uncancelled query and of its subprocess, but for the
\* subprocess's writes
QueryRunStep ==
    \/ Query
    \/ ReceiveMessage
    \/ ReceiveError
    \/ P_Connect
    \/ P_ReceiveMessages
    \/ P_RecvData
    \/ P_SendMsg
    \/ P_RecvErr
    \/ P_Disconnect
    \/ P_DisconnectReturns
    \/ P_CloseMsg
    \/ P_CloseErr
    \/ Q_RecvMsg
    \/ Q_SendMsg
    \/ Q_RecvErr
    \/ Q_CloseMsg
    \/ Q_CloseErr
    \/ \E code \in ExitCodes : ProcExit(code)
    \/ R_CollectStderr
    \/ R_CollectReturn
    \/ R_NewScanner
    \/ R_Scan
    \/ R_Line
    \/ R_SendRecord
    \/ R_WaitStderr
    \/ R_HandleProcessExit
    \/ R_CloseMsg
    \/ R_CloseErr
    \/ C_NewScanner
    \/ C_Scan
    \/ D_Finish

ParseNext ==
    \/ QueryRunStep
    \/ \E line \in ParseStdoutInputs : ProcWriteStdout(line)

ParseSpec == Init /\ [][ParseNext]_vars

\* the lines whose record C37 speaks of: "type" missing, not a string, or
\* not one of user/assistant/system/result, and user or assistant records
\* without a well-formed message.content
DroppedLines ==
    {NoTypeLine, NumTypeLine, UnknownLine, ObjectLine, BadUserLine}

\* the messages ProcessQuery has produced and not yet handed on, and those
\* the consumer has received
MessagesProduced ==
    {pMsgCh[i].idx : i \in 1..Len(pMsgCh)}
    \cup {qMsgCh[i].idx : i \in 1..Len(qMsgCh)}
    \cup {got[i].idx : i \in 1..Len(got)}
    \cup (IF pData # NoMessage THEN {pData.idx} ELSE {})
    \cup (IF qData # NoMessage THEN {qData.idx} ELSE {})

\* the step in which ProcessQuery receives the record of such a line
ReceivesDroppedRecord ==
    /\ ppc = "select" /\ msgCh # <<>> /\ msgCh' = Tail(msgCh)
    /\ outLines[Head(msgCh).idx] \in DroppedLines

\* C37: a record whose "type" is missing, not a string or unknown, or a
\* user/assistant record without a well-formed message.content, is dropped
\* by ProcessQuery: no message is ever produced for it, no error is
\* produced, and the goroutine stays in its loop for the next record.
C37_UnparsedRecordDropped ==
    /\ [](\A i \in MessagesProduced : outLines[i] \notin DroppedLines)
    /\ []((connErr = NoError) =>
            (pErrCh = <<>> /\ qErrCh = <<>> /\ gotErrs = <<>>))
    /\ [][ReceivesDroppedRecord =>
            (ppc' = "select" /\ UNCHANGED <<pData, pMsgCh, pErrCh, pCloses>>)]_vars

\* C37 witness: the first record was dropped and the consumer has received
\* the message of the second, and nothing else, from a finished query
C37_Witness ==
    /\ QueryOver
    /\ outLines = <<BadUserLine, UserLine>>
    /\ got = <<[idx |-> 2, type |-> "UserMessage"]>>
    /\ gotErrs = <<>>

\* the stdout lines of the model that hold a JSON object
JSONObjectLines ==
    {ObjectLine, UnknownLine, SystemLine, NoTypeLine, NumTypeLine, UserLine,
     BadUserLine, AssistantLine}

\* C38: every record sent on the transport's record channel is a non-nil
\* mapping decoded from a stdout line that is a JSON object; a line holding
\* another JSON value (null, a number, an array) yields no record.
C38_RecordsAreObjects ==
    \A i \in 1..Len(sent) :
        /\ ~sent[i].nil
        /\ TrimSpace(outLines[sent[i].idx]) \in JSONObjectLines

\* what holds instead: a record comes from a JSON object or from the JSON
\* value null, and it is nil exactly when it comes from null
RecordsAreObjectsOrNull ==
    \A i \in 1..Len(sent) :
        /\ TrimSpace(outLines[sent[i].idx]) \in JSONObjectLines \cup {NullLine}
        /\ sent[i].nil <=> (outLines[sent[i].idx] = NullLine)

(***************************************************************************)
(* Queries under every configuration of the buffer sizes (BufferSpec):     *)
(* the caller passes nil options or options whose two sizes are negative,  *)
(* zero or positive, each on its own.                                      *)
(***************************************************************************)
BufferSizeInputs == {-1, 0, 1, MaxBufConfig}

BufferOptions ==
    {NilOptions} \cup
    { [nil |-> FALSE, QueryTimeout |-> 0,
       MessageBufferSize |-> m, ErrorBufferSize |-> n] :
        m \in BufferSizeInputs, n \in BufferSizeInputs }

BufferInit ==
    /\ InitButOptions
    /\ qOpts \in BufferOptions
    /\ caps = ChannelCaps(OptionsOrDefault(qOpts))
    /\ environ = HostEnviron

BufferNext ==
    \/ QueryRunStep
    \/ ProcWriteStdout(SystemLine)

BufferSpec == BufferInit /\ [][BufferNext]_vars

\* the size a caller configured, when it counts
Configured(o, size) == ~o.nil /\ size > 0

\* C39: the capacities the channels of Query, ProcessQuery and
\* ReceiveMessages are made with are the configured sizes where those are
\* positive and otherwise (nil options, zero, negative) 10 for messages and
\* 1 for errors; so every capacity is at least 1, and no channel holds more
\* than its capacity.
C39_BufferSizes ==
    /\ caps.msg = (IF Configured(qOpts, qOpts.MessageBufferSize)
                   THEN qOpts.MessageBufferSize ELSE 10)
    /\ caps.err = (IF Configured(qOpts, qOpts.ErrorBufferSize)
                   THEN qOpts.ErrorBufferSize ELSE 1)
    /\ caps.msg >= 1 /\ caps.err >= 1
    /\ Len(msgCh) <= caps.msg /\ Len(pMsgCh) <= caps.msg
    /\ Len(qMsgCh) <= caps.msg
    /\ Len(errCh) <= caps.err /\ Len(pErrCh) <= caps.err
    /\ Len(qErrCh) <= caps.err

\* C39 witness: with a zero message size and a negative error size the
\* transport has made its channels with the defaults and a record is queued
C39_Witness ==
    /\ ~qOpts.nil
    /\ qOpts.MessageBufferSize = 0 /\ qOpts.ErrorBufferSize = -1
    /\ rpc # "idle" /\ caps = [msg |-> 10, err |-> 1]
    /\ Len(msgCh) = 1

(***************************************************************************)
(* Sessions under every parent environment (EnvSpec): Connect and          *)
(* Disconnect on one transport, the host program's environment drawn from  *)
(* entries with and without '=', with allowed, other and blocked keys.     *)
(***************************************************************************)
EnvEntries ==
    {"PATH=/bin", "HOME=a=b", "USERNAME=u", "CLAUDE_CODE_ENTRYPOINT=cli",
     "GITHUB_TOKEN=t", "SECRET=1", "TERM", "NOEQUALS", "=v"}

RECURSIVE EnvsOfLength(_)
EnvsOfLength(n) ==
    IF n = 0 THEN {<<>>}
    ELSE {Append(env, e) : env \in EnvsOfLength(n - 1), e \in EnvEntries}

EnvInputs == UNION {EnvsOfLength(n) : n \in 0..MaxEnv}

EnvInit ==
    /\ InitButOptions
    /\ qOpts \in OptionsInputs
    /\ caps = ChannelCaps(OptionsOrDefault(qOpts))
    /\ environ \in EnvInputs

EnvNext ==
    \/ \E o \in ConnectOutcomes : LifeConnect("connCtx", o)
    \/ LifeDisconnect(TRUE)
    \/ D_WaitReturns
    \/ D_Exited
    \/ D_Timeout
    \/ D_AfterKill
    \/ D_Finish
    \/ \E code \in ExitCodes : ProcExit(code)
    \/ ProcForceKilled

EnvSpec == EnvInit /\ [][EnvNext]_vars

\* an entry with a '=', whose key (what stands before the first '=') starts
\* with an allowed prefix and is not a blocked key
AllowedPrefixes ==
    {"CLAUDE_", "LANG", "LC_", "TZ", "TERM", "USER", "HOME", "PATH", "TMPDIR",
     "TEMP", "TMP"}
BlockedKeys ==
    {"AWS_SECRET_ACCESS_KEY", "AWS_SESSION_TOKEN", "GITHUB_TOKEN", "NPM_TOKEN",
     "ANTHROPIC_API_KEY"}
ContainsEquals(e) == \E i \in 1..Len(e) : SubSeq(e, i, i) = "="
KeyOf(e) ==
    LET first == CHOOSE i \in 1..Len(e) :
                    /\ SubSeq(e, i, i) = "="
                    /\ \A j \in 1..(i - 1) : SubSeq(e, j, j) # "="
    IN SubSeq(e, 1, first - 1)
SafeEntry(e) ==
    /\ ContainsEquals(e)
    /\ \E p \in AllowedPrefixes :
          Len(KeyOf(e)) >= Len(p) /\ SubSeq(KeyOf(e), 1, Len(p)) = p
    /\ KeyOf(e) \notin BlockedKeys

EnvFilteredOut ==
    /\ proc.st = "running"
    /\ environ = <<"GITHUB_TOKEN=t", "PATH=/bin">>
    /\ proc.env = <<"PATH=/bin", "CLAUDE_CODE_ENTRYPOINT=sdk-go">>

====
